---- MODULE Spec2Model ----
(***************************************************************************)
(* Similarity linking of ideas (core/crews/graph_agent.py) over the        *)
(* relational edge store (core/database/sqlite_manager.py) and the vector  *)
(* index (core/database/chroma_manager.py).                                *)
(***************************************************************************)
EXTENDS Integers, Sequences, FiniteSets, TLC

(***************************************************************************)
(* Numbers.  Python floats are modelled as decimal floating-point numbers  *)
(* with Prec significant digits on a grid of 1/Unit: a number is the       *)
(* integer count of 1/Unit it holds, and every arithmetic operation rounds *)
(* its exact result to the nearest representable number, ties to even, as  *)
(* IEEE-754 arithmetic does.  An optional float is <<>> (None) or <<x>>.   *)
(***************************************************************************)
Prec == 2

Unit == 10 * 10 * 10

None == <<>>

Some(x) == <<x>>

Abs(n) == IF n < 0 THEN -n ELSE n

\* the numbers below Full have at most Prec digits
Full == 10 ^ Prec

RECURSIVE Quantum(_, _)
\* the spacing of the representable numbers around n: the least power of ten
\* q such that n, cut to a multiple of q, has at most Prec digits
Quantum(n, q) == IF n < Full * q THEN q ELSE Quantum(n, 10 * q)

\* the multiple of q nearest to A / b, ties to the even multiple
Nearest(A, b, q) ==
    LET bq == b * q
        k  == A \div bq
        r2 == 2 * (A % bq)
    IN  q * (IF r2 < bq \/ (r2 = bq /\ k % 2 = 0) THEN k ELSE k + 1)

\* the representable number nearest to a / b (b > 0), in units of 1/Unit
FlRound2(a, b) ==
    IF a < 0 THEN -Nearest(-a, b, Quantum((-a) \div b, 1))
    ELSE Nearest(a, b, Quantum(a \div b, 1))

FlRound(n) == FlRound2(n, 1)

FlAdd(x, y) == FlRound(x + y)

FlMul(x, y) == FlRound2(x * y, Unit)

\* x / y for y # 0 (Python raises ZeroDivisionError for y = 0)
FlDiv(x, y) == IF y < 0 THEN FlRound2(-(x * Unit), -y) ELSE FlRound2(x * Unit, y)

One == Unit


(***************************************************************************)
(* Sequence helpers.                                                       *)
(***************************************************************************)
Range(s) == {s[i] : i \in DOMAIN s}

Take(s, n) == SubSeq(s, 1, IF n < Len(s) THEN n ELSE Len(s))

\* the element of a one-element set: a name bound to it, as x in
\* Once({f(x) : x \in {e}}), stands for the value of e, computed once
Once(S) == CHOOSE x \in S : TRUE

\* all sequences over S of length 0 .. n
SeqsUpTo(S, n) == UNION {[1..m -> S] : m \in 0..n}

(***************************************************************************)
(* State.                                                                  *)
(*   idea_nodes   the relational idea_nodes table: node_id -> row          *)
(*   chroma_ideas the "ideas" collection of the vector index:              *)
(*                node_id -> [embedding, voice_profile_id]                 *)
(*   edges        the relational edges table, in insertion order; the      *)
(*                position of a row stands for its fresh uuid4 edge_id     *)
(*   last         what the last finished call did and returned             *)
(*   pc, call     the position and the locals of each running              *)
(*                autolink_for_node call (concurrent callers)              *)
(*   wfd          the arguments and results of weight_from_distance calls  *)
(*   km           the arguments, the locals and the position of the        *)
(*                running kmeans call                                      *)
(*   first        what the first of two kmeans calls with the same         *)
(*                arguments returned                                       *)
(*   chunker      the arguments, the locals and the position of the        *)
(*                running chunk_by_chars call                              *)
(*   voice_profiles  the relational voice_profiles table, in insertion     *)
(*                order                                                    *)
(***************************************************************************)
VARIABLES idea_nodes, chroma_ideas, edges, last, pc, call, wfd, km, first, chunker,
          voice_profiles

vars == <<idea_nodes, chroma_ideas, edges, last, pc, call, wfd, km, first, chunker,
         voice_profiles>>

(***************************************************************************)
(* The ideas of the model.  Tags are stored as a comma-joined string; a    *)
(* tags value is the sequence of the pieces split(",") yields.             *)
(***************************************************************************)
NodeIds == {"A", "B", "C", "D", "E", "F"}

\* an id no idea row and no index entry has
UnknownId == "X"

Rows ==
    [n \in NodeIds |->
        CASE n = "A" -> [user_id |-> "u1", voice_profile_id |-> "p1", tags |-> <<"AI", " ml">>,
                         content |-> "ca", created_at |-> 1]
          [] n = "B" -> [user_id |-> "u1", voice_profile_id |-> "p1", tags |-> <<"ai", "">>,
                         content |-> "cb", created_at |-> 2]
          [] n = "C" -> [user_id |-> "u1", voice_profile_id |-> "p1", tags |-> <<"ML", "ai ">>,
                         content |-> "cc", created_at |-> 3]
          [] n = "D" -> [user_id |-> "u1", voice_profile_id |-> "p1", tags |-> <<>>,
                         content |-> "", created_at |-> 4]
          [] n = "E" -> [user_id |-> "u2", voice_profile_id |-> "p2", tags |-> <<"ai">>,
                         content |-> " ", created_at |-> 5]
          [] n = "F" -> [user_id |-> "u2", voice_profile_id |-> "p2", tags |-> <<"ML">>,
                         content |-> "cf", created_at |-> 6]]

\* EmbeddingProvider.embed_text: strip, then the unit vector e0 for an empty
\* text, else the provider's normalized vector for the text
EmbedText(text) ==
    CASE text = "ca" -> <<Unit, 0>>
      [] text = "cb" -> <<900, 400>>
      [] text = "cc" -> <<800, 600>>
      [] text = "cf" -> <<-770, 690>>
      [] OTHER       -> <<Unit, 0>>

\* the index entries the generation component writes for an idea
IndexRow(n) == [embedding |-> EmbedText(Rows[n].content),
                voice_profile_id |-> Rows[n].voice_profile_id]

\* str.strip().lower() on the tag pieces of the model
TagNorm(t) ==
    CASE t \in {"AI", "ai", "ai "} -> "ai"
      [] t \in {" ml", "ML"}       -> "ml"
      [] OTHER                     -> ""

\* {t.strip().lower() for t in tags.split(",") if t and t.strip()}
TagSet(tags) == {TagNorm(tags[i]) : i \in {j \in DOMAIN tags : TagNorm(tags[j]) # ""}}

(***************************************************************************)
(* Relational store (SQLiteManager).                                       *)
(***************************************************************************)
\* get_idea_node(node_id) or {}: the row, or a row without values
get_idea_node(nodes, node_id) ==
    IF node_id \in DOMAIN nodes THEN nodes[node_id]
    ELSE [user_id |-> "", voice_profile_id |-> "", tags |-> <<>>, content |-> "", created_at |-> 0]

RECURSIVE SortRecent(_, _)
\* the ids of S, most recently created first
SortRecent(nodes, S) ==
    IF S = {} THEN <<>>
    ELSE LET m == CHOOSE n \in S : \A o \in S : nodes[o].created_at <= nodes[n].created_at
         IN  <<m>> \o SortRecent(nodes, S \ {m})

\* list_idea_nodes without its WHERE clause
list_idea_nodes_Unscoped(nodes, limit, user_id, voice_profile_id) ==
    Take(SortRecent(nodes, DOMAIN nodes), limit)

\* list_idea_nodes(limit, user_id, voice_profile_id): optional equality
\* filters, ORDER BY created_at DESC LIMIT limit
list_idea_nodes(nodes, limit, user_id, voice_profile_id) ==
    LET S == {n \in DOMAIN nodes :
                 /\ (user_id # "" => nodes[n].user_id = user_id)
                 /\ (voice_profile_id # "" => nodes[n].voice_profile_id = voice_profile_id)}
    IN  Take(SortRecent(nodes, S), limit)

\* edge_exists with the two ids bound to the wrong columns
edge_exists_Swapped(E, src_id, dst_id, edge_type) ==
    \E i \in DOMAIN E : E[i].src_id = dst_id /\ E[i].dst_id = src_id /\ E[i].edge_type = edge_type

\* edge_exists(src_id, dst_id, edge_type): SELECT 1 ... LIMIT 1
edge_exists(E, src_id, dst_id, edge_type) ==
    \E i \in DOMAIN E : E[i].src_id = src_id /\ E[i].dst_id = dst_id /\ E[i].edge_type = edge_type

\* create_edge on a table with UNIQUE (src_id, dst_id, edge_type) and
\* INSERT OR IGNORE: a second row for the same triple is dropped
create_edge_Unique(E, src_id, dst_id, edge_type, weight, metadata) ==
    IF \E i \in DOMAIN E :
           E[i].src_id = src_id /\ E[i].dst_id = dst_id /\ E[i].edge_type = edge_type
    THEN E
    ELSE Append(E, [src_id |-> src_id, dst_id |-> dst_id, edge_type |-> edge_type,
                    weight |-> weight, metadata |-> metadata])

\* create_edge as INSERT OR REPLACE on a table that keeps one row per edge
\* type and pair of nodes: the row of the opposite direction is deleted
create_edge_Replace(E, src_id, dst_id, edge_type, weight, metadata) ==
    Append(SelectSeq(E, LAMBDA r : ~(r.src_id = dst_id /\ r.dst_id = src_id
                                      /\ r.edge_type = edge_type)),
           [src_id |-> src_id, dst_id |-> dst_id, edge_type |-> edge_type,
            weight |-> weight, metadata |-> metadata])

\* create_edge: a plain INSERT of a row with a fresh edge_id; the table has
\* no uniqueness constraint besides the edge_id primary key
create_edge(E, src_id, dst_id, edge_type, weight, metadata) ==
    Append(E, [src_id |-> src_id, dst_id |-> dst_id, edge_type |-> edge_type,
               weight |-> weight, metadata |-> metadata])

\* the edge_id create_edge returns for the row it appends to E
NewEdgeId(E) == Len(E) + 1

(***************************************************************************)
(* GraphAgent (core/crews/graph_agent.py).                                 *)
(***************************************************************************)
\* get_idea_embedding without the "if content" test of line 38
get_idea_embedding_NoContentCheck(ix, nodes, node_id) ==
    IF node_id \in DOMAIN ix THEN ix[node_id].embedding
    ELSE EmbedText(get_idea_node(nodes, node_id).content)

\* get_idea_embedding: the index entry's embedding; else the embedding of
\* the row's content when that is non-empty; else None
get_idea_embedding(ix, nodes, node_id) ==
    IF node_id \in DOMAIN ix THEN ix[node_id].embedding
    ELSE LET content == get_idea_node(nodes, node_id).content
         IN  IF content # "" THEN EmbedText(content) ELSE None

\* weight_from_distance without the reciprocal
weight_from_distance_NoReciprocal(d) ==
    IF d = None THEN 0 ELSE FlAdd(One, d[1])

\* weight_from_distance(d)
weight_from_distance(d) ==
    IF d = None THEN 0 ELSE FlDiv(One, FlAdd(One, d[1]))

RECURSIVE DotFrom(_, _, _)
DotFrom(a, b, i) ==
    IF i > Len(a) \/ i > Len(b) THEN 0
    ELSE FlAdd(DotFrom(a, b, i + 1), FlMul(a[i], b[i]))

\* sum(a*b for a, b in zip(emb, dst_emb))
Dot(a, b) == DotFrom(a, b, 1)

\* the relaxed bound added to max_distance when tags corroborate (0.10)
TagRelax == 100

\* the distance screens without the tag-corroborated relaxed bound
AllowedDistance_NoRelax(dist, overlap, P) ==
    /\ dist # None
    /\ \/ dist[1] <= P.max_distance
       \/ dist[1] <= P.close_override_distance

\* lines 145-155: the distance screens
AllowedDistance(dist, overlap, P) ==
    /\ dist # None
    /\ \/ dist[1] <= P.max_distance
       \/ dist[1] <= P.close_override_distance
       \/ /\ P.require_tag_overlap
          /\ overlap >= P.min_tag_overlap
          /\ dist[1] <= FlAdd(P.max_distance, TagRelax)

\* line 156: a strong cosine match
AllowedCosine(cos_val, P) == cos_val # None /\ cos_val[1] >= P.min_cosine

\* allowed = allowed_distance and allowed_cosine
Allowed_And(dist, cos_val, overlap, P) ==
    AllowedDistance(dist, overlap, P) /\ AllowedCosine(cos_val, P)

\* the screen without the close_override_distance clause
Allowed_NoOverride(dist, cos_val, overlap, P) ==
    \/ /\ dist # None
       /\ \/ dist[1] <= P.max_distance
          \/ /\ P.require_tag_overlap
             /\ overlap >= P.min_tag_overlap
             /\ dist[1] <= FlAdd(P.max_distance, TagRelax)
    \/ AllowedCosine(cos_val, P)

\* line 158: allowed = allowed_distance or allowed_cosine
Allowed(dist, cos_val, overlap, P) ==
    AllowedDistance(dist, overlap, P) \/ AllowedCosine(cos_val, P)

\* the weight taken from the cosine whenever there is one
EdgeWeight_CosineFirst(dist, cos_val) ==
    IF cos_val # None THEN cos_val[1]
    ELSE IF dist # None THEN FlDiv(One, FlAdd(One, dist[1])) ELSE 0

\* line 174: the weight of a new edge
EdgeWeight(dist, cos_val) ==
    IF dist # None THEN FlDiv(One, FlAdd(One, dist[1]))
    ELSE IF cos_val # None THEN cos_val[1] ELSE 0

\* n_results of both index queries
NResults(P) == P.top_k + (IF P.exclude_self THEN 1 ELSE 0)

\* query_ideas(dst_emb, n) of the mutual gate, unfiltered: the answer of the
\* index is one of: nothing (a failed query yields {"ids": []}), the
\* candidate's own neighborhood without the origin ("miss"), or with it
\* ("hit"); an answer holds indexed ids only and at most n of them
Requery(ix, kind, rid, node_id, n) ==
    LET own == IF rid \in DOMAIN ix THEN <<rid>> ELSE <<>>
    IN  IF kind = "down" THEN <<>>
        ELSE IF kind = "hit" /\ node_id \in DOMAIN ix
             THEN (IF n >= 2 /\ rid # node_id THEN own \o <<node_id>> ELSE <<node_id>>)
        ELSE own

\* lines 160-169: whether the mutual gate re-queries the index
Requeries(screen, dst_emb, P) == screen /\ P.require_mutual /\ dst_emb # None

\* the gate passing on any non-empty answer
MutualKeeps_AnyAnswer(node_id, ids2) == ids2 # <<>>

\* lines 166-167: the gate's verdict on the re-query's answer ids2
MutualKeeps(node_id, ids2) == node_id \in Range(ids2)

\* lines 128-177 for the candidate at position i of c.ids, against the edge
\* rows E: everything up to and including the edge_exists lookup (which the
\* code makes for an allowed candidate only; its answer is recorded for all)
Candidate(c, i, E) ==
    LET rid       == c.ids[i]
        dist      == IF i <= Len(c.dists) THEN Some(c.dists[i]) ELSE None
        dst_emb   == get_idea_embedding(c.ix, c.nodes, rid)
        cos_val   == IF dst_emb # None THEN Some(Dot(c.emb, dst_emb)) ELSE None
        dst_tags  == TagSet(get_idea_node(c.nodes, rid).tags)
        overlap   == Cardinality(c.src_tags \cap dst_tags)
        screen    == Allowed(dist, cos_val, overlap, c.P)
        requeried == Requeries(screen, dst_emb, c.P)
        ids2      == IF requeried THEN Requery(c.ix, c.rq, rid, c.node_id, NResults(c.P)) ELSE <<>>
        allowed   == screen /\ (requeried => MutualKeeps(c.node_id, ids2))
    IN  [dst_id |-> rid, distance |-> dist, cos_val |-> cos_val, tag_overlap |-> overlap,
         src_tags |-> c.src_tags, dst_tags |-> dst_tags,
         screen |-> screen, requeried |-> requeried, ids2 |-> ids2, allowed |-> allowed,
         weight |-> EdgeWeight(dist, cos_val),
         existed |-> edge_exists(E, c.node_id, rid, "similar")]

\* lines 178-196: the edge row of an accepted candidate k, and its result record
LinkEdge(E, node_id, k) ==
    create_edge(E, node_id, k.dst_id, "similar", k.weight,
                [distance |-> k.distance, tag_overlap |-> k.tag_overlap,
                 src_tags |-> k.src_tags, dst_tags |-> k.dst_tags])

LinkResult(E, k) ==
    [edge_id |-> NewEdgeId(E), dst_id |-> k.dst_id, weight |-> k.weight,
     distance |-> k.distance, tag_overlap |-> k.tag_overlap]

\* the store during a call: None when every INSERT of create_edge succeeds,
\* Some(m) when m more succeed and the one after them raises
Inserts(db) == db = None \/ db[1] > 0

AfterInsert(db) == IF db = None THEN None ELSE Some(db[1] - 1)

RECURSIVE LinkLoop_KeepsSelf(_, _, _)
\* the loop without the test of lines 124-125
LinkLoop_KeepsSelf(c0, i, acc0) ==
    Once({
        IF i > Len(c.ids) \/ acc.raised THEN acc
        ELSE Once({
            LET tried == k.allowed /\ ~k.existed
                made  == tried /\ Inserts(acc.db)
            IN  LinkLoop_KeepsSelf(c, i + 1,
                    [edges   |-> IF made THEN LinkEdge(acc.edges, c.node_id, k) ELSE acc.edges,
                     results |-> IF made THEN Append(acc.results, LinkResult(acc.edges, k))
                                 ELSE acc.results,
                     log     |-> Append(acc.log, k @@ [created |-> made]),
                     queries |-> acc.queries + (IF k.requeried THEN 1 ELSE 0),
                     raised  |-> tried /\ ~made,
                     db      |-> IF made THEN AfterInsert(acc.db) ELSE acc.db])
            : k \in {Candidate(c, i, acc.edges)}})
        : c \in {c0}, acc \in {acc0}})

RECURSIVE LinkLoop_CatchesInsertError(_, _, _)
\* the loop going on after a create_edge that raised
LinkLoop_CatchesInsertError(c0, i, acc0) ==
    Once({
        IF i > Len(c.ids) THEN acc
        ELSE IF c.P.exclude_self /\ c.ids[i] = c.node_id THEN LinkLoop_CatchesInsertError(c, i + 1, acc)
        ELSE Once({
            LET tried == k.allowed /\ ~k.existed
                made  == tried /\ (Inserts(acc.db) \/ acc.raised)
            IN  LinkLoop_CatchesInsertError(c, i + 1,
                    [edges   |-> IF made THEN LinkEdge(acc.edges, c.node_id, k) ELSE acc.edges,
                     results |-> IF made THEN Append(acc.results, LinkResult(acc.edges, k))
                                 ELSE acc.results,
                     log     |-> Append(acc.log, k @@ [created |-> made]),
                     queries |-> acc.queries + (IF k.requeried THEN 1 ELSE 0),
                     raised  |-> acc.raised \/ (tried /\ ~made),
                     db      |-> IF made THEN AfterInsert(acc.db) ELSE acc.db])
            : k \in {Candidate(c, i, acc.edges)}})
        : c \in {c0}, acc \in {acc0}})

RECURSIVE LinkLoop(_, _, _)
\* lines 123-197: the loop over the candidates from position i on; acc holds
\* the edge rows, the result records and the per-candidate trace so far, and
\* whether create_edge raised, which ends the call
LinkLoop(c0, i, acc0) ==
    Once({
        IF i > Len(c.ids) \/ acc.raised THEN acc
        ELSE IF c.P.exclude_self /\ c.ids[i] = c.node_id THEN LinkLoop(c, i + 1, acc)
        ELSE Once({
            LET tried == k.allowed /\ ~k.existed
                made  == tried /\ Inserts(acc.db)
            IN  LinkLoop(c, i + 1,
                    [edges   |-> IF made THEN LinkEdge(acc.edges, c.node_id, k) ELSE acc.edges,
                     results |-> IF made THEN Append(acc.results, LinkResult(acc.edges, k))
                                 ELSE acc.results,
                     log     |-> Append(acc.log, k @@ [created |-> made]),
                     queries |-> acc.queries + (IF k.requeried THEN 1 ELSE 0),
                     raised  |-> tried /\ ~made,
                     db      |-> IF made THEN AfterInsert(acc.db) ELSE acc.db])
            : k \in {Candidate(c, i, acc.edges)}})
        : c \in {c0}, acc \in {acc0}})

RECURSIVE InsertSim(_, _)
\* list.sort(key=cos, reverse=True) is stable: s goes after the entries of
\* the sorted list whose cosine is >= its own
InsertSim(sorted, s) ==
    IF sorted = <<>> THEN <<s>>
    ELSE IF Head(sorted).cos >= s.cos THEN <<Head(sorted)>> \o InsertSim(Tail(sorted), s)
    ELSE <<s>> \o sorted

RECURSIVE SortSims(_, _)
SortSims(sims, i) ==
    IF i > Len(sims) THEN <<>> ELSE InsertSim(SortSims(sims, i + 1), sims[i])

\* the size of the recent pool the fallback ranks (limit=200)
PoolLimit == 200

RECURSIVE PoolSims(_, _, _, _, _, _)
\* lines 95-112: (id, cosine) of every pool idea with a derivable embedding
PoolSims(ix, nodes, node_id, P, emb, pool) ==
    IF pool = <<>> THEN <<>>
    ELSE LET cid  == Head(pool)
             rest == PoolSims(ix, nodes, node_id, P, emb, Tail(pool))
             cemb == get_idea_embedding(ix, nodes, cid)
         IN  IF (P.exclude_self /\ cid = node_id) \/ cemb = None THEN rest
             ELSE <<[id |-> cid, cos |-> Dot(emb, cemb)]>> \o rest

RECURSIVE SimIds(_)
\* line 117: ids = [s[0] for s in sims]
SimIds(sims) == IF sims = <<>> THEN <<>> ELSE <<Head(sims).id>> \o SimIds(Tail(sims))

\* 1.0 - cos, not clamped at 0
CosDistance_NoClamp(cos) == FlAdd(One, -cos)

\* max(0.0, 1.0 - cos)
CosDistance(cos) == IF FlAdd(One, -cos) > 0 THEN FlAdd(One, -cos) ELSE 0

RECURSIVE SimDists(_)
\* line 118: dists = [max(0.0, 1.0 - s[1]) for s in sims]
SimDists(sims) ==
    IF sims = <<>> THEN <<>> ELSE <<CosDistance(Head(sims).cos)>> \o SimDists(Tail(sims))

\* lines 89-121: the candidates of the fallback path
Fallback(ix, nodes, node_id, P, emb) ==
    LET src  == get_idea_node(nodes, node_id)
        pool == list_idea_nodes(nodes, PoolLimit, src.user_id, src.voice_profile_id)
        sims == Take(SortSims(PoolSims(ix, nodes, node_id, P, emb, pool), 1), P.top_k)
    IN  [ids |-> SimIds(sims), dists |-> SimDists(sims)]

\* the fallback taken whenever fewer than top_k ids came back
TooFew_BelowTopK(ids, P) == Len(ids) < P.top_k

\* line 91: too few neighbors came back from the index
TooFew(ids, P) == Len(ids) <= (IF P.exclude_self THEN 1 ELSE 0)

\* autolink_for_node(node_id, **P) against the stores (E, nodes, ix), where
\* env holds the answers of the vector index: env.qr to the neighbor query,
\* env.rq the kind of answer the mutual gate's re-queries get
autolink_for_node(E0, nodes0, ix0, node_id, P0, env0) ==
    Once({
        IF emb = None
        THEN [edges |-> E, results |-> <<>>, log |-> <<>>, queries |-> 0, path |-> "none",
              raised |-> FALSE, db |-> env.db]
        ELSE LET src  == get_idea_node(nodes, node_id)
                 cold == TooFew(env.qr.ids, P)
                 cand == IF cold THEN Fallback(ix, nodes, node_id, P, emb) ELSE env.qr
                 c    == [node_id |-> node_id, P |-> P, emb |-> emb,
                          src_tags |-> TagSet(src.tags), ids |-> cand.ids,
                          dists |-> cand.dists, rq |-> env.rq, nodes |-> nodes, ix |-> ix]
                 out  == LinkLoop(c, 1, [edges |-> E, results |-> <<>>, log |-> <<>>,
                                         queries |-> 1, raised |-> FALSE, db |-> env.db])
             IN  out @@ [path |-> IF cold THEN "fallback" ELSE "index"]
        : E \in {E0}, nodes \in {nodes0}, ix \in {ix0}, P \in {P0}, env \in {env0},
          emb \in {get_idea_embedding(ix0, nodes0, node_id)}})

(***************************************************************************)
(* Inputs of the model.                                                    *)
(***************************************************************************)
\* the distances the index reports: 0.1, 0.9, 2.0
DistVals == {100, 900, 2000}

PolicySet(top_ks, excludes, max_ds, tag_rules, closes, min_coss, mutuals) ==
    {[top_k |-> k, exclude_self |-> x, max_distance |-> md,
      require_tag_overlap |-> tr[1], min_tag_overlap |-> tr[2],
      close_override_distance |-> cl, min_cosine |-> mc, require_mutual |-> mu] :
        k \in top_ks, x \in excludes, md \in max_ds, tr \in tag_rules,
        cl \in closes, mc \in min_coss, mu \in mutuals}

\* every combination of: top_k 1 or 2; max_distance 0.05 or 0.85; tag rule
\* off, 1 shared tag or 2; close_override_distance 0.05 or 0.35; min_cosine
\* 0.55 or 0.95
AllPolicies ==
    PolicySet({1, 2}, BOOLEAN, {50, 850}, {<<FALSE, 1>>, <<TRUE, 1>>, <<TRUE, 2>>},
              {50, 350}, {550, 950}, BOOLEAN)

\* the defaults of autolink_for_node (line 48-58)
DefaultPolicy ==
    [top_k |-> 2, exclude_self |-> TRUE, max_distance |-> 850,
     require_tag_overlap |-> FALSE, min_tag_overlap |-> 1,
     close_override_distance |-> 350, min_cosine |-> 550, require_mutual |-> FALSE]

\* the most candidates an index answer holds in the exhaustive single-call runs
MaxCands == 2

\* an entry the index still answers with and get_ideas no longer returns
Stale == {"D"}

\* the distance lists an answer with the ids i can carry: one distance per
\* id, nearest first, or no distances at all
DistLists(i) ==
    {d \in [DOMAIN i -> DistVals] : \A a, b \in DOMAIN i : a < b => d[a] <= d[b]} \cup {<<>>}

\* the answers query_ideas can give to the neighbor query of node_id: at most
\* n_results ids (and at most maxc) among the entries that pass the where
\* filter, with their distances
IndexAnswers(ix, nodes, node_id, P, maxc) ==
    LET src_vp == get_idea_node(nodes, node_id).voice_profile_id
        held   == [n \in DOMAIN ix \cup Stale |-> IndexRow(n)]
        match  == {n \in DOMAIN held : src_vp # "" => held[n].voice_profile_id = src_vp}
        most   == IF NResults(P) < maxc THEN NResults(P) ELSE maxc
    IN  {[ids |-> ids, dists |-> dists] :
            <<ids, dists>> \in
                UNION {{<<i, d>> : d \in DistLists(i)} :
                        i \in SeqsUpTo(match, most)}}

\* what the vector index answers during one autolink_for_node call
Envs(ix, nodes, node_id, P, maxc) ==
    IF get_idea_embedding(ix, nodes, node_id) = None
    THEN {[qr |-> [ids |-> <<>>, dists |-> <<>>], rq |-> "down", db |-> None]}
    ELSE {[qr |-> qr, rq |-> rq, db |-> None] :
            qr \in IndexAnswers(ix, nodes, node_id, P, maxc),
            rq \in IF P.require_mutual THEN {"down", "miss", "hit"} ELSE {"down"}}

FullIndex == [n \in {"A", "B", "C", "E", "F"} |-> IndexRow(n)]

ColdIndex == [n \in {} |-> IndexRow(n)]

Procs == {1, 2}

NoCall == [node_id |-> ""]

InitStores ==
    /\ idea_nodes = Rows
    /\ chroma_ideas \in {FullIndex, ColdIndex}
    /\ edges = <<>>
    /\ last = [op |-> "none"]
    /\ pc = [p \in Procs |-> "idle"]
    /\ call = [p \in Procs |-> NoCall]
    /\ wfd = <<>>
    /\ km = [pc |-> "idle"]
    /\ first = None
    /\ chunker = [pc |-> "idle"]
    /\ voice_profiles = <<>>

(***************************************************************************)
(* One call of autolink_for_node, run to its end.                          *)
(***************************************************************************)
AutolinkForNode(node_id, P, env) ==
    \E out \in {autolink_for_node(edges, idea_nodes, chroma_ideas, node_id, P, env)} :
        /\ edges' = out.edges
        /\ last' = [op |-> "autolink_for_node", node_id |-> node_id, P |-> P,
                    start |-> Len(edges), results |-> out.results, log |-> out.log,
                    queries |-> out.queries, path |-> out.path, raised |-> out.raised,
                    db |-> env.db,
                    answered |-> Len(env.qr.ids)]
        /\ UNCHANGED <<idea_nodes, chroma_ideas, pc, call, wfd, km, first,
                 chunker, voice_profiles>>

\* a single call with any policy on any id, known or not
OneCall ==
    /\ last.op = "none"
    /\ \E node_id \in NodeIds \cup {UnknownId}, P \in AllPolicies :
         \E env \in Envs(chroma_ideas, idea_nodes, node_id, P, MaxCands) :
            AutolinkForNode(node_id, P, env)

InitOne == InitStores

NextOne == OneCall

SpecOne == InitOne /\ [][NextOne]_vars

(***************************************************************************)
(* autolink_recent (lines 200-217).                                        *)
(***************************************************************************)
RECURSIVE RecentLoop(_, _, _, _, _, _)
\* lines 204-216: one autolink_for_node call per listed idea, each on the
\* edge rows the calls before it left; envs[nid] holds the index's answers
\* during the call for nid
RecentLoop(nodes0, ix0, ids0, P0, envs0, acc0) ==
    Once({
        IF ids = <<>> \/ acc.raised THEN acc
        ELSE Once({
            RecentLoop(nodes, ix, Tail(ids), P, envs,
                [edges  |-> r.edges,
                 out    |-> IF r.raised THEN acc.out
                            ELSE Append(acc.out, [node_id |-> Head(ids),
                                                  created_edges |-> r.results]),
                 calls  |-> Append(acc.calls, [node_id |-> Head(ids), log |-> r.log,
                                               queries |-> r.queries, path |-> r.path]),
                 raised |-> r.raised,
                 db     |-> r.db])
            : r \in {autolink_for_node(acc.edges, nodes, ix, Head(ids), P,
                                       [envs[Head(ids)] EXCEPT !.db = acc.db])}})
        : nodes \in {nodes0}, ix \in {ix0}, ids \in {ids0}, P \in {P0},
          envs \in {envs0}, acc \in {acc0}})

\* autolink_recent with no LIMIT on the ideas it lists
autolink_recent_Unlimited(E, nodes, ix, limit, P, user_id, voice_profile_id, envs, db) ==
    RecentLoop(nodes, ix,
               list_idea_nodes(nodes, Cardinality(DOMAIN nodes), user_id, voice_profile_id),
               [P EXCEPT !.exclude_self = TRUE], envs,
               [edges |-> E, out |-> <<>>, calls |-> <<>>, raised |-> FALSE, db |-> db])

\* autolink_recent(limit, **P, user_id, voice_profile_id); exclude_self is
\* not passed on, so every call runs with its default True
autolink_recent(E, nodes, ix, limit, P, user_id, voice_profile_id, envs, db) ==
    RecentLoop(nodes, ix, list_idea_nodes(nodes, limit, user_id, voice_profile_id),
               [P EXCEPT !.exclude_self = TRUE], envs,
               [edges |-> E, out |-> <<>>, calls |-> <<>>, raised |-> FALSE, db |-> db])

(***************************************************************************)
(* The vector index as Chroma answers by default: the n nearest entries by *)
(* squared Euclidean distance.                                             *)
(***************************************************************************)
RECURSIVE L2From(_, _, _)
L2From(a, b, i) ==
    IF i > Len(a) \/ i > Len(b) THEN 0
    ELSE LET d == FlAdd(a[i], -b[i]) IN FlAdd(L2From(a, b, i + 1), FlMul(d, d))

L2Sq(a, b) == L2From(a, b, 1)

RECURSIVE InsertNear(_, _)
InsertNear(sorted, e) ==
    IF sorted = <<>> THEN <<e>>
    ELSE IF Head(sorted).d <= e.d THEN <<Head(sorted)>> \o InsertNear(Tail(sorted), e)
    ELSE <<e>> \o sorted

RECURSIVE Ranked(_, _, _)
\* the entries of S with their distance to emb, nearest first
Ranked(ix, emb, S) ==
    IF S = {} THEN <<>>
    ELSE LET c == CHOOSE e \in S : TRUE
         IN  InsertNear(Ranked(ix, emb, S \ {c}), [id |-> c, d |-> L2Sq(emb, ix[c].embedding)])

\* ids[i] replaced by ids[i - 1] at the last position
RepeatLast(near) ==
    IF Len(near) < 2 THEN near
    ELSE SubSeq(near, 1, Len(near) - 1) \o <<near[Len(near) - 1]>>

RECURSIVE Ids(_)
Ids(near) == IF near = <<>> THEN <<>> ELSE <<Head(near).id>> \o Ids(Tail(near))

RECURSIVE Dists(_)
Dists(near) == IF near = <<>> THEN <<>> ELSE <<Head(near).d>> \o Dists(Tail(near))

\* the ways the index answers a neighbor query in the multi-call runs:
\*   "exact"  the n nearest matching entries with their distances
\*   "twice"  the same, with the last entry replaced by a repeat of the one
\*            before it
\*   "down"   nothing (the query failed, or the collection is not there)
IndexKinds == {"exact", "twice", "down"}

KindAnswer(ix, nodes, node_id, P, kind) ==
    LET emb    == get_idea_embedding(ix, nodes, node_id)
        src_vp == get_idea_node(nodes, node_id).voice_profile_id
        match  == {n \in DOMAIN ix : src_vp # "" => ix[n].voice_profile_id = src_vp}
        near   == Take(Ranked(ix, emb, match), NResults(P))
        ans    == IF kind = "twice" THEN RepeatLast(near) ELSE near
    IN  IF kind = "down" \/ emb = None THEN [ids |-> <<>>, dists |-> <<>>]
        ELSE [ids |-> Ids(ans), dists |-> Dists(ans)]

KindEnv(ix, nodes, node_id, P, kind, rq) ==
    [qr |-> KindAnswer(ix, nodes, node_id, P, kind), rq |-> rq, db |-> None]

\* the defaults of autolink_recent (line 200), with a small top_k
RecentPolicy ==
    [top_k |-> 2, exclude_self |-> TRUE, max_distance |-> 600,
     require_tag_overlap |-> TRUE, min_tag_overlap |-> 1,
     close_override_distance |-> 300, min_cosine |-> 550, require_mutual |-> FALSE]

SeqPolicies ==
    {DefaultPolicy, [DefaultPolicy EXCEPT !.exclude_self = FALSE],
     [DefaultPolicy EXCEPT !.top_k = 1, !.require_mutual = TRUE]}

\* the answers the mutual gate's re-queries can get under policy P
RqKinds(P) == IF P.require_mutual THEN {"miss", "hit"} ELSE {"down"}

\* calls start while the edges table holds fewer than MaxEdges rows
MaxEdges == 2

\* the largest limit autolink_recent is called with
MaxLimit == 2

Scopes == {<<"", "">>, <<"u1", "p1">>}

LinkNode ==
    /\ Len(edges) < MaxEdges
    /\ \E node_id \in NodeIds, P \in SeqPolicies, kind \in IndexKinds :
         \E rq \in RqKinds(P) :
            AutolinkForNode(node_id, P,
                KindEnv(chroma_ideas, idea_nodes, node_id, P, kind, rq))

AutolinkRecent(limit, P, user_id, voice_profile_id, envs, db) ==
    \E r \in {autolink_recent(edges, idea_nodes, chroma_ideas, limit, P,
                              user_id, voice_profile_id, envs, db)} :
        /\ edges' = r.edges
        /\ last' = [op |-> "autolink_recent", limit |-> limit, P |-> P, start |-> Len(edges),
                    user_id |-> user_id, voice_profile_id |-> voice_profile_id,
                    out |-> r.out, calls |-> r.calls, envs |-> envs,
                    raised |-> r.raised, db |-> db]
        /\ UNCHANGED <<idea_nodes, chroma_ideas, pc, call, wfd, km, first,
                 chunker, voice_profiles>>

LinkRecent ==
    /\ Len(edges) < MaxEdges
    /\ \E limit \in 1..MaxLimit, scope \in Scopes, kind \in IndexKinds :
         AutolinkRecent(limit, RecentPolicy, scope[1], scope[2],
            [n \in NodeIds |->
                KindEnv(chroma_ideas, idea_nodes, n, RecentPolicy, kind, "down")], None)

Init == InitStores

Next == LinkNode \/ LinkRecent

Spec == Init /\ [][Next]_vars

(***************************************************************************)
(* Concurrent callers.  Each caller runs one autolink_for_node call step   *)
(* by step; the idea rows and the index are only read, so the steps that   *)
(* matter are the two calls on the edges table, edge_exists (line 176) and *)
(* create_edge (line 178), each committed on its own.                      *)
(***************************************************************************)
\* lines 65-121: the embedding, the neighbor query and the fallback
Start(p, node_id, P, kind) ==
    /\ pc[p] = "idle"
    /\ LET emb == get_idea_embedding(chroma_ideas, idea_nodes, node_id)
           qr  == KindAnswer(chroma_ideas, idea_nodes, node_id, P, kind)
           cand == IF TooFew(qr.ids, P)
                   THEN Fallback(chroma_ideas, idea_nodes, node_id, P, emb) ELSE qr
       IN  IF emb = None
           THEN /\ pc' = [pc EXCEPT ![p] = "done"]
                /\ call' = [call EXCEPT ![p] = [node_id |-> node_id, results |-> <<>>]]
           ELSE /\ pc' = [pc EXCEPT ![p] = "screen"]
                /\ call' = [call EXCEPT ![p] =
                     [node_id |-> node_id, i |-> 1, results |-> <<>>,
                      c |-> [node_id |-> node_id, P |-> P, emb |-> emb,
                             src_tags |-> TagSet(get_idea_node(idea_nodes, node_id).tags),
                             ids |-> cand.ids, dists |-> cand.dists, rq |-> "down",
                             nodes |-> idea_nodes, ix |-> chroma_ideas]]]
    /\ UNCHANGED <<idea_nodes, chroma_ideas, edges, last, wfd, km, first,
                 chunker, voice_profiles>>

\* lines 124-177: the next candidate, up to the edge_exists lookup; or the
\* return at the end of the list
Screen(p) ==
    /\ pc[p] = "screen"
    /\ LET cl == call[p]
           c  == cl.c
       IN  IF cl.i > Len(c.ids)
           THEN /\ pc' = [pc EXCEPT ![p] = "done"]
                /\ call' = [call EXCEPT ![p] = [node_id |-> cl.node_id, results |-> cl.results]]
           ELSE IF c.P.exclude_self /\ c.ids[cl.i] = c.node_id
           THEN /\ call' = [call EXCEPT ![p].i = cl.i + 1]
                /\ pc' = pc
           ELSE \E k \in {Candidate(c, cl.i, edges)} :
                  IF k.allowed /\ ~k.existed
                  THEN /\ pc' = [pc EXCEPT ![p] = "create"]
                       /\ call' = [call EXCEPT ![p] = cl @@ [k |-> k]]
                  ELSE /\ call' = [call EXCEPT ![p].i = cl.i + 1]
                       /\ pc' = pc
    /\ UNCHANGED <<idea_nodes, chroma_ideas, edges, last, wfd, km, first,
                 chunker, voice_profiles>>

\* lines 178-196: create_edge and the result record
Create(p) ==
    /\ pc[p] = "create"
    /\ LET cl == call[p]
       IN  /\ edges' = LinkEdge(edges, cl.node_id, cl.k)
           /\ call' = [call EXCEPT ![p] =
                 [node_id |-> cl.node_id, i |-> cl.i + 1, c |-> cl.c,
                  results |-> Append(cl.results, LinkResult(edges, cl.k))]]
           /\ pc' = [pc EXCEPT ![p] = "screen"]
    /\ UNCHANGED <<idea_nodes, chroma_ideas, last, wfd, km, first,
                 chunker, voice_profiles>>

RaceNodes == {"A", "B", "D"}

RacePolicies == {DefaultPolicy, [DefaultPolicy EXCEPT !.top_k = 1]}

InitRace == InitStores

NextRace ==
    \E p \in Procs :
        \/ \E node_id \in RaceNodes, P \in RacePolicies, kind \in {"exact", "down"} :
              Start(p, node_id, P, kind)
        \/ Screen(p)
        \/ Create(p)

SpecRace == InitRace /\ [][NextRace]_vars

(***************************************************************************)
(* weight_from_distance as a function of its argument.                     *)
(***************************************************************************)
\* the largest distance, in 1/Unit, the calls are made with
MaxWfd == 30

\* the floats among None, 0 .. MaxWfd/Unit and 0.1, 0.5, 1, 2, 9.8, 9.9
WfdInputs ==
    {None} \cup {Some(n) : n \in {m \in (0..MaxWfd) \cup {100, 500, 1000, 2000, 9800, 9900} :
                                    FlRound(m) = m}}

\* wfd holds the last two calls, [d, w] each
WeightFromDistance(d) ==
    /\ wfd' = Take(<<[d |-> d, w |-> weight_from_distance(d)]>> \o wfd, 2)
    /\ UNCHANGED <<idea_nodes, chroma_ideas, edges, last, pc, call, km, first,
                 chunker, voice_profiles>>

InitWeight == InitStores

NextWeight == \E d \in WfdInputs : WeightFromDistance(d)

SpecWeight == InitWeight /\ [][NextWeight]_vars

(***************************************************************************)
(* core/utils/graph_utils.py: cosine_similarity and kmeans.  Labels and    *)
(* the indices the generator draws are 0-based, as in the code; the        *)
(* centroid of cluster j is at position j + 1 of the centroids.            *)
(***************************************************************************)
RECURSIVE IsqrtIn(_, _, _)
\* the integer square root of v, searched between lo and hi
IsqrtIn(v, lo, hi) ==
    IF lo >= hi THEN lo
    ELSE LET mid == (lo + hi + 1) \div 2
         IN  IF mid * mid <= v THEN IsqrtIn(v, mid, hi) ELSE IsqrtIn(v, lo, mid - 1)

\* math.sqrt(x) for x >= 0
FlSqrt(x) == FlRound2(IsqrtIn(x * Unit * 100, 0, 10 * x + 10 * Unit), 10)

\* cosine_similarity(a, b)
cosine_similarity(a, b) ==
    IF a = <<>> \/ b = <<>> \/ Len(a) # Len(b) THEN 0
    ELSE LET dot == Dot(a, b)
             na  == FlSqrt(Dot(a, a))
             nb  == FlSqrt(Dot(b, b))
         IN  IF na = 0 \/ nb = 0 THEN 0 ELSE FlDiv(dot, FlMul(na, nb))

(***************************************************************************)
(* random.Random, as far as kmeans uses it.  The Mersenne Twister is       *)
(* modelled by a small linear congruential generator: its stream is a      *)
(* function of the seed alone, sample(range(n), k) draws k distinct        *)
(* indices with the pool algorithm of CPython, and randint(a, b) draws     *)
(* from a .. b, both ends included.                                        *)
(***************************************************************************)
RndMod == 2 ^ 6

RndNext(x) == (13 * x + 7) % RndMod

\* a generator started from what the system clock or the entropy pool gives
Random_Unseeded(seed, entropy) == entropy % RndMod

\* random.Random(seed); entropy is what an unseeded generator would start from
Random(seed, entropy) == seed % RndMod

\* _randbelow(b): the next state of the generator and the number drawn
RandBelow(x, b) == [x |-> RndNext(x), v |-> (RndNext(x) \div 4) % b]

\* randint(a, b) = a + _randbelow(b - a + 1)
randint(x, a, b) == [x |-> RndNext(x), v |-> a + RandBelow(x, b - a + 1).v]

RECURSIVE SamplePool(_, _, _, _)
\* sample: result[i] = pool[j]; pool[j] = pool[n - i - 1], with m = n - i
SamplePool(x, pool, m, k) ==
    IF k = 0 THEN [x |-> x, out |-> <<>>]
    ELSE LET r    == RandBelow(x, m)
             j    == r.v + 1
             rest == SamplePool(r.x, [pool EXCEPT ![j] = pool[m]], m - 1, k - 1)
         IN  [x |-> rest.x, out |-> <<pool[j]>> \o rest.out]

\* rnd.sample(range(n), k)
sample(x, n, k) == SamplePool(x, [i \in 1..n |-> i - 1], n, k)

(***************************************************************************)
(* kmeans(vectors, k, max_iter, seed).                                     *)
(***************************************************************************)
Min(a, b) == IF a < b THEN a ELSE b

Max(a, b) == IF a > b THEN a ELSE b

\* k = min(k, n), with no lower bound
ClampK_NoLowerBound(k, n) == Min(k, n)

\* line 25: k = max(1, min(k, n))
ClampK(k, n) == Max(1, Min(k, n))

RECURSIVE BestFrom(_, _, _, _, _)
\* lines 34-39 from the centroid at position j on: the index of the first
\* centroid at the least distance 1 - cosine_similarity; best_d is None
\* for float("inf")
BestFrom(v, centroids, j, best_idx, best_d) ==
    IF j > Len(centroids) THEN best_idx
    ELSE LET d == FlAdd(One, -cosine_similarity(v, centroids[j]))
         IN  IF best_d = None \/ d < best_d[1]
             THEN BestFrom(v, centroids, j + 1, j - 1, Some(d))
             ELSE BestFrom(v, centroids, j + 1, best_idx, best_d)

\* the best index with ties going to the last centroid
BestIdx_LastWins(v, centroids) ==
    LET D(j) == FlAdd(One, -cosine_similarity(v, centroids[j]))
        best == CHOOSE j \in DOMAIN centroids :
                    \A o \in DOMAIN centroids : D(j) < D(o) \/ (D(j) = D(o) /\ j >= o)
    IN  best - 1

BestIdx(v, centroids) == BestFrom(v, centroids, 1, 0, None)

\* assign(): the new labels and the number of labels that changed
assign(vectors, centroids, labels) ==
    LET new == [i \in DOMAIN vectors |-> BestIdx(vectors[i], centroids)]
    IN  [labels  |-> new,
         changes |-> Cardinality({i \in DOMAIN vectors : labels[i] # new[i]})]

RECURSIVE AddUp(_, _, _, _, _)
\* lines 49-52 for cluster j: the sum of its vectors, taken in list order
AddUp(vectors, labels, j, i, acc) ==
    IF i > Len(vectors) THEN acc
    ELSE AddUp(vectors, labels, j, i + 1,
               IF labels[i] = j THEN [d \in DOMAIN acc |-> FlAdd(acc[d], vectors[i][d])]
               ELSE acc)

Count(labels, j) == Cardinality({i \in DOMAIN labels : labels[i] = j})

\* [x / counts[j] for x in sums[j]]
Mean(sum, cnt) == [d \in DOMAIN sum |-> FlDiv(sum[d], cnt * Unit)]

RECURSIVE RecomputeFrom(_, _, _, _)
\* lines 53-57 from cluster j on; st holds the centroids, the generator, the
\* number of reseeds and whether vectors[...] raised IndexError
RecomputeFrom(vectors, labels, j, st) ==
    IF j >= Len(st.centroids) \/ st.raised THEN st
    ELSE LET n   == Len(vectors)
             cnt == Count(labels, j)
             r   == randint(st.x, 0, n)
             sum == AddUp(vectors, labels, j, 1, [d \in DOMAIN vectors[1] |-> 0])
         IN  IF cnt # 0
             THEN RecomputeFrom(vectors, labels, j + 1,
                      [st EXCEPT !.centroids[j + 1] = Mean(sum, cnt)])
             ELSE IF r.v >= n
             THEN [st EXCEPT !.x = r.x, !.raised = TRUE]
             ELSE RecomputeFrom(vectors, labels, j + 1,
                      [st EXCEPT !.centroids[j + 1] = Mean(vectors[r.v + 1], 1),
                                 !.x = r.x, !.reseeds = @ + 1])

\* recompute()
recompute(vectors, labels, centroids, x) ==
    RecomputeFrom(vectors, labels, 0,
                  [centroids |-> centroids, x |-> x, reseeds |-> 0, raised |-> FALSE])

\* lines 21-28: the call up to the loop
KmeansStart(vectors, k, max_iter, seed, entropy) ==
    LET n   == Len(vectors)
        kc  == ClampK(k, n)
        smp == sample(Random(seed, entropy), n, kc)
    IN  IF vectors = <<>>
        THEN [pc |-> "returned", vectors |-> vectors, k_arg |-> k, k |-> k,
              max_iter |-> max_iter, seed |-> seed, x |-> 0, centroids |-> <<>>,
              labels |-> <<>>, passes |-> 0, reseeds |-> 0, why |-> "empty"]
        ELSE [pc |-> IF max_iter > 0 THEN "assign" ELSE "returned",
              vectors |-> vectors, k_arg |-> k, k |-> kc,
              max_iter |-> max_iter, seed |-> seed, x |-> smp.x,
              centroids |-> [j \in 1..kc |-> vectors[smp.out[j] + 1]],
              labels |-> [i \in 1..n |-> 0], passes |-> 0, reseeds |-> 0,
              why |-> IF max_iter > 0 THEN "" ELSE "max_iter"]

\* lines 59-61: one assignment pass and the test that ends the loop
AssignPass(st) ==
    LET a == assign(st.vectors, st.centroids, st.labels)
    IN  [st EXCEPT !.labels = a.labels, !.passes = @ + 1,
                   !.pc = IF a.changes = 0 THEN "returned" ELSE "recompute",
                   !.why = IF a.changes = 0 THEN "no_change" ELSE @]

\* line 62, and line 58 for the next round
RecomputeStep(st) ==
    LET r == recompute(st.vectors, st.labels, st.centroids, st.x)
    IN  [st EXCEPT !.centroids = r.centroids, !.x = r.x, !.reseeds = @ + r.reseeds,
                   !.pc = IF r.raised THEN "raised"
                          ELSE IF st.passes < st.max_iter THEN "assign" ELSE "returned",
                   !.why = IF r.raised THEN "IndexError"
                           ELSE IF st.passes < st.max_iter THEN @ ELSE "max_iter"]

RECURSIVE KmeansRun(_)
\* lines 58-63: the loop from the position of st to the end of the call
KmeansRun(st) ==
    IF st.pc = "assign" THEN KmeansRun(AssignPass(st))
    ELSE IF st.pc = "recompute" THEN KmeansRun(RecomputeStep(st))
    ELSE st

\* kmeans(vectors, k, max_iter, seed): its state when it returns or raises
kmeans(vectors, k, max_iter, seed, entropy) ==
    KmeansRun(KmeansStart(vectors, k, max_iter, seed, entropy))

(***************************************************************************)
(* kmeans run one pass at a time, and run again with the same arguments.   *)
(* The entropy is what an unseeded generator would start from; it differs  *)
(* from run to run and random.Random(seed) ignores it.                     *)
(***************************************************************************)
MaxVecs == 4

MaxK == 4

MaxIter == 3

Palette == {<<1000, 0>>, <<900, 400>>, <<-770, 690>>}

VectorLists == UNION {[1..n -> Palette] : n \in 0..MaxVecs}

KArgs == (0..MaxK) \cup {10}

MaxIters == (0..MaxIter) \cup {25}

Seeds == {42}

Entropy == {11, 29}

\* what the caller of kmeans gets: the pair it returns, or the exception
Outcome(st) ==
    IF st.pc = "raised" THEN [raised |-> TRUE, labels |-> <<>>, centroids |-> <<>>]
    ELSE [raised |-> FALSE, labels |-> st.labels, centroids |-> st.centroids]

Finished(st) == st.pc \in {"returned", "raised"}

KmeansCall ==
    /\ km.pc = "idle"
    /\ \E vectors \in VectorLists, k \in KArgs, max_iter \in MaxIters,
          seed \in Seeds, e \in Entropy :
          km' = KmeansStart(vectors, k, max_iter, seed, e)
    /\ UNCHANGED <<idea_nodes, chroma_ideas, edges, last, pc, call, wfd, first,
                 chunker, voice_profiles>>

Assign ==
    /\ km.pc = "assign"
    /\ \E out \in {AssignPass(km)} : km' = out
    /\ UNCHANGED <<idea_nodes, chroma_ideas, edges, last, pc, call, wfd, first,
                 chunker, voice_profiles>>

Recompute ==
    /\ km.pc = "recompute"
    /\ \E out \in {RecomputeStep(km)} : km' = out
    /\ UNCHANGED <<idea_nodes, chroma_ideas, edges, last, pc, call, wfd, first,
                 chunker, voice_profiles>>

\* the caller keeps the outcome and calls again with the same arguments
Again ==
    /\ Finished(km)
    /\ first = None
    /\ first' = Some(Outcome(km))
    /\ \E e \in Entropy :
          km' = KmeansStart(km.vectors, km.k_arg, km.max_iter, km.seed, e)
    /\ UNCHANGED <<idea_nodes, chroma_ideas, edges, last, pc, call, wfd,
                 chunker, voice_profiles>>

InitKmeans == InitStores /\ chroma_ideas = FullIndex

NextKmeans == KmeansCall \/ Assign \/ Recompute \/ Again

SpecKmeans == InitKmeans /\ [][NextKmeans]_vars

(***************************************************************************)
(* top_tokens and GraphAgent.cluster_ideas.                                *)
(***************************************************************************)
\* the title an idea is indexed with (metadata "title"), stripped
Titles(n) ==
    CASE n = "A" -> "Improve onboarding flow"
      [] n = "B" -> "Neural search for AI"
      [] n = "C" -> "AI"
      [] n = "E" -> "Onboarding checklist for new hires"
      [] OTHER   -> ""

\* re.findall(r"[A-Za-z][A-Za-z\-']+", t.lower()) on the titles of the model
Tokenize(t) ==
    CASE t = "Improve onboarding flow"            -> <<"improve", "onboarding", "flow">>
      [] t = "Neural search for AI"               -> <<"neural", "search", "for", "ai">>
      [] t = "AI"                                 -> <<"ai">>
      [] t = "Onboarding checklist for new hires" ->
             <<"onboarding", "checklist", "for", "new", "hires">>
      [] OTHER                                    -> <<>>

\* the stop words among the tokens of the model
StopWords == {"for"}

\* the tokens of the model with fewer than 3 characters
ShortTokens == {"ai"}

RECURSIVE AllTokens(_)
\* toks.extend(...) for every text
AllTokens(texts) ==
    IF texts = <<>> THEN <<>> ELSE Tokenize(Head(texts)) \o AllTokens(Tail(texts))

\* w not in stop and len(w) >= 3
KeepToken(w) == w \notin StopWords /\ w \notin ShortTokens

CountOf(toks, w) == Cardinality({i \in DOMAIN toks : toks[i] = w})

FirstAt(toks, w) == CHOOSE i \in DOMAIN toks : toks[i] = w /\ \A j \in 1..(i - 1) : toks[j] # w

RECURSIVE MostCommon(_, _, _)
\* Counter(toks).most_common(n): by count, the first seen first among equals
MostCommon(toks, words, n) ==
    IF n = 0 \/ words = {} THEN <<>>
    ELSE LET w == CHOOSE a \in words : \A o \in words :
                     \/ CountOf(toks, a) > CountOf(toks, o)
                     \/ CountOf(toks, a) = CountOf(toks, o) /\ FirstAt(toks, a) <= FirstAt(toks, o)
         IN  <<w>> \o MostCommon(toks, words \ {w}, n - 1)

\* top_tokens without the stop list and the length filter
top_tokens_Unfiltered(texts, n) ==
    LET toks == AllTokens(texts)
    IN  MostCommon(toks, {toks[i] : i \in DOMAIN toks}, n)

\* top_tokens(texts, n)
top_tokens(texts, n) ==
    LET toks == SelectSeq(AllTokens(texts), KeepToken)
    IN  MostCommon(toks, {toks[i] : i \in DOMAIN toks}, n)

RECURSIVE Join(_, _)
\* sep.join(parts)
Join(sep, parts) ==
    IF parts = <<>> THEN ""
    ELSE IF Len(parts) = 1 THEN parts[1]
    ELSE parts[1] \o sep \o Join(sep, Tail(parts))

\* f"cluster:{k}:{cid}"
ClusterNodeId(k, cid) == "cluster:" \o ToString(k) \o ":" \o ToString(cid)

\* line 250: the label of cluster cid from the titles of its members
ClusterLabel(titles, cid) ==
    LET label_tokens == top_tokens(titles, 3)
    IN  IF label_tokens # <<>> THEN Join(" / ", label_tokens)
        ELSE IF titles # <<>> THEN titles[1]
        ELSE "cluster-" \o ToString(cid)

\* the ids get_ideas returns, in the order the entries were added
IndexIds(ix, nodes) ==
    LET r == SortRecent(nodes, DOMAIN ix)
    IN  [i \in 1..Len(r) |-> r[Len(r) + 1 - i]]

\* max(labels)
MaxLabel(labels) == CHOOSE m \in {labels[i] : i \in DOMAIN labels} :
                        \A i \in DOMAIN labels : labels[i] <= m

\* lines 232-241: the ids of cluster cid, and the non-empty titles
MemberIds(ids, labels, cid) ==
    SelectSeq(ids, LAMBDA n : \E i \in DOMAIN ids : ids[i] = n /\ labels[i] = cid)

MemberTitles(ids, labels, cid) ==
    LET with == SelectSeq(MemberIds(ids, labels, cid), LAMBDA n : Titles(n) # "")
    IN  [i \in DOMAIN with |-> Titles(with[i])]

\* lines 254-262: the record reported for cluster cid
ClusterRecord(ids, labels, k, cid) ==
    LET titles == MemberTitles(ids, labels, cid)
    IN  [cluster_id    |-> ClusterNodeId(k, cid),
         label         |-> ClusterLabel(titles, cid),
         size          |-> Len(MemberIds(ids, labels, cid)),
         ids           |-> MemberIds(ids, labels, cid),
         sample_titles |-> Take(titles, 3)]

RECURSIVE MemberEdges(_, _, _)
\* lines 252-254 for one cluster: an edge per member, in order, up to the
\* create_edge that raises
MemberEdges(acc0, rec0, i) ==
    Once({
        IF i > Len(rec.ids) \/ acc.raised THEN acc
        ELSE IF Inserts(acc.db)
        THEN MemberEdges([edges  |-> create_edge(acc.edges, rec.cluster_id, rec.ids[i],
                                                 "cluster_member", One, [label |-> rec.label]),
                          raised |-> FALSE,
                          db     |-> AfterInsert(acc.db)],
                         rec, i + 1)
        ELSE [acc EXCEPT !.raised = TRUE]
        : acc \in {acc0}, rec \in {rec0}})

RECURSIVE ClusterEdges(_, _, _)
\* lines 245-254: the clusters in the order of their ids
ClusterEdges(acc0, results0, c) ==
    Once({
        IF c > Len(results) \/ acc.raised THEN acc
        ELSE ClusterEdges(MemberEdges(acc, results[c], 1), results, c + 1)
        : acc \in {acc0}, results \in {results0}})

\* cluster_ideas(k) with no early return for an empty index
cluster_ideas_NoEmptyCheck(E, ix, nodes, k, got, entropy, db) ==
    LET ids  == IF got = "ok" THEN IndexIds(ix, nodes) ELSE <<>>
    IN  [edges |-> create_edge(E, ClusterNodeId(k, 0), "", "cluster_member", One,
                               [label |-> "cluster-0"]),
         raised |-> FALSE, edge_raised |-> FALSE, n |-> Len(ids),
         clusters |-> <<[cluster_id |-> ClusterNodeId(k, 0), label |-> "cluster-0",
                         size |-> 0, ids |-> <<>>, sample_titles |-> <<>>]>>]

\* cluster_ideas(k): the edges table after the call and what it returns;
\* got is "down" when get_ideas fails and answers with empty lists; raised
\* tells that kmeans raised, edge_raised that create_edge did
cluster_ideas(E, ix, nodes, k, got, entropy, db) ==
    LET ids  == IF got = "ok" THEN IndexIds(ix, nodes) ELSE <<>>
        embs == [i \in DOMAIN ids |-> ix[ids[i]].embedding]
    IN  IF ids = <<>> \/ embs = <<>>
        THEN [edges |-> E, raised |-> FALSE, edge_raised |-> FALSE, n |-> 0,
              clusters |-> <<>>]
        ELSE Once({
            IF run.pc = "raised"
            THEN [edges |-> E, raised |-> TRUE, edge_raised |-> FALSE, n |-> Len(ids),
                  clusters |-> <<>>]
            ELSE Once({
                Once({
                    [edges |-> made.edges, raised |-> FALSE, edge_raised |-> made.raised,
                     n |-> Len(ids), clusters |-> IF made.raised THEN <<>> ELSE results]
                    : made \in {ClusterEdges([edges |-> E, raised |-> FALSE, db |-> db],
                                             results, 1)}})
                : results \in {[c \in 1..(MaxLabel(run.labels) + 1) |->
                                   ClusterRecord(ids, run.labels, k, c - 1)]}})
            : run \in {kmeans(embs, k, 25, 42, entropy)}})

(***************************************************************************)
(* Runs of cluster_ideas over the index.                                   *)
(***************************************************************************)
\* the most runs of cluster_ideas in a behaviour
MaxRuns == 2

\* add_idea is best effort: the index holds the entries of the ideas whose
\* add succeeded
GraphIndexes == {[n \in S |-> IndexRow(n)] : S \in SUBSET DOMAIN FullIndex}

\* the runs so far that fetched the index entries
RunsSoFar == IF last.op = "cluster_ideas" THEN last.runs ELSE 0

CallsSoFar == IF last.op = "cluster_ideas" THEN last.calls ELSE 0

ClusterIdeas(k, got, entropy, db) ==
    /\ CallsSoFar < MaxRuns
    /\ \E out \in {cluster_ideas(edges, chroma_ideas, idea_nodes, k, got, entropy, db)} :
         /\ edges' = out.edges
         /\ last' = [op |-> "cluster_ideas", k |-> k, got |-> got, start |-> Len(edges),
                     raised |-> out.raised, edge_raised |-> out.edge_raised,
                     db |-> db, entropy |-> entropy,
                     n |-> out.n, clusters |-> out.clusters,
                     calls |-> CallsSoFar + 1,
                     runs |-> RunsSoFar + (IF out.n > 0 THEN 1 ELSE 0)]
    /\ UNCHANGED <<idea_nodes, chroma_ideas, pc, call, wfd, km, first,
                 chunker, voice_profiles>>

\* the k cluster_ideas is called with: its default 3, and values outside
\* 1..n
ClusterKs == {0, 3, 10}

ClusterCall ==
    \E k \in ClusterKs, got \in {"ok", "down"}, e \in Entropy : ClusterIdeas(k, got, e, None)

InitGraph ==
    /\ idea_nodes = Rows
    /\ chroma_ideas \in GraphIndexes
    /\ edges = <<>>
    /\ last = [op |-> "none"]
    /\ pc = [p \in Procs |-> "idle"]
    /\ call = [p \in Procs |-> NoCall]
    /\ wfd = <<>>
    /\ km = [pc |-> "idle"]
    /\ first = None
    /\ chunker = [pc |-> "idle"]
    /\ voice_profiles = <<>>

NextGraph == ClusterCall

SpecGraph == InitGraph /\ [][NextGraph]_vars

(***************************************************************************)
(* One call of autolink_for_node whose min_cosine may be negative, then    *)
(* one run of cluster_ideas with its default k.                            *)
(***************************************************************************)
\* the defaults, with or without exclude_self, and the same with
\* min_cosine = -1.0
SignedPolicies ==
    {[DefaultPolicy EXCEPT !.exclude_self = x, !.min_cosine = mc] :
        x \in BOOLEAN, mc \in {550, -Unit}}

\* a call of autolink_for_node, the index answering with at most one id
LinkSigned ==
    /\ last.op = "none"
    /\ \E node_id \in NodeIds, P \in SignedPolicies :
         \E env \in Envs(chroma_ideas, idea_nodes, node_id, P, 1) :
            AutolinkForNode(node_id, P, env)

\* cluster_ideas() after the call: k = 3
ClusterDefault ==
    /\ last.op = "autolink_for_node"
    /\ \E e \in Entropy : ClusterIdeas(3, "ok", e, None)

InitSigned == InitStores

NextSigned == LinkSigned \/ ClusterDefault

SpecSigned == InitSigned /\ [][NextSigned]_vars

(***************************************************************************)
(* Calls during which the edges table may refuse an INSERT: create_edge    *)
(* (sqlite_manager.py 653-674) has no try around its execute and commit,   *)
(* and commits once per edge.                                              *)
(***************************************************************************)
\* the most INSERTs that succeed before one raises; the calls start on an
\* empty edges table
MaxInserts == 1

Budgets == {None} \cup {Some(m) : m \in 0..MaxInserts}

FailLink ==
    /\ edges = <<>>
    /\ \E node_id \in NodeIds, P \in SeqPolicies, kind \in IndexKinds, db \in Budgets :
         \E rq \in RqKinds(P) :
            AutolinkForNode(node_id, P,
                [KindEnv(chroma_ideas, idea_nodes, node_id, P, kind, rq) EXCEPT !.db = db])

FailRecent ==
    /\ edges = <<>>
    /\ \E limit \in 1..MaxLimit, scope \in Scopes, kind \in IndexKinds, db \in Budgets :
         AutolinkRecent(limit, RecentPolicy, scope[1], scope[2],
            [n \in NodeIds |->
                KindEnv(chroma_ideas, idea_nodes, n, RecentPolicy, kind, "down")], db)

FailCluster ==
    /\ edges = <<>>
    /\ \E e \in Entropy, db \in Budgets : ClusterIdeas(3, "ok", e, db)

InitFail == InitStores

NextFail == FailLink \/ FailRecent \/ FailCluster

SpecFail == InitFail /\ [][NextFail]_vars

(***************************************************************************)
(* The three operations of GraphAgent in any order: linking while the      *)
(* edges table is short, clustering up to MaxRuns times in a row.          *)
(***************************************************************************)
\* autolink_for_node with its defaults
LinkDefault ==
    /\ Len(edges) < MaxEdges
    /\ \E node_id \in NodeIds, kind \in IndexKinds :
         AutolinkForNode(node_id, DefaultPolicy,
             KindEnv(chroma_ideas, idea_nodes, node_id, DefaultPolicy, kind, "down"))

\* autolink_recent over the ideas of every owner
RecentUnscoped ==
    /\ Len(edges) < MaxEdges
    /\ \E limit \in 1..MaxLimit, kind \in IndexKinds :
         AutolinkRecent(limit, RecentPolicy, "", "",
            [n \in NodeIds |->
                KindEnv(chroma_ideas, idea_nodes, n, RecentPolicy, kind, "down")], None)

ClusterAgain == \E e \in Entropy : ClusterIdeas(3, "ok", e, None)

InitFrame == InitStores

NextFrame == LinkDefault \/ RecentUnscoped \/ ClusterAgain

SpecFrame == InitFrame /\ [][NextFrame]_vars

(***************************************************************************)
(* core/utils/text_chunking.py: chunk_by_chars.  A text is the sequence of *)
(* its characters; positions are 0-based as in the code, so text[a:b] is   *)
(* SubSeq(text, a + 1, b).                                                 *)
(***************************************************************************)
\* the longest text, the largest max_chars and the largest overlap of a call
MaxText == 4

MaxChars == 3

MaxOverlap == 3

\* a running call is followed for up to MaxChunks chunks: more than a call
\* that returns can make
MaxChunks == MaxText + 2

\* text[a:b] for 0 <= a
Slice(text, a, b) == SubSeq(text, a + 1, Min(Max(b, 0), Len(text)))

\* line 36 moving on by the overlap instead of back by it
NextStart_Forward(end, overlap) == end + overlap

\* line 36: start = max(0, end - overlap)
NextStart(end, overlap) == Max(0, end - overlap)

\* lines 23-29: text = text or "", the early return for an empty text, and
\* the locals before the loop
ChunkStart(text, max_chars, overlap) ==
    [pc |-> IF Len(text) = 0 THEN "returned" ELSE "loop",
     text |-> text, max_chars |-> max_chars, overlap |-> overlap,
     n |-> Len(text), start |-> 0, chunks |-> <<>>]

\* lines 30-36: the test of the while loop and one pass through its body
ChunkPass(c) ==
    IF ~(c.start < c.n) THEN [c EXCEPT !.pc = "returned"]
    ELSE LET end    == Min(c.start + c.max_chars, c.n)
             chunks == Append(c.chunks, [start |-> c.start, end |-> end,
                                         text |-> Slice(c.text, c.start, end)])
         IN  IF end >= c.n
             THEN [c EXCEPT !.chunks = chunks, !.pc = "returned"]
             ELSE [c EXCEPT !.chunks = chunks, !.start = NextStart(end, c.overlap)]

\* the texts of the calls; None stands for a missing text
Texts == SeqsUpTo({"a", "b"}, MaxText)

ChunkByChars ==
    /\ chunker.pc \in {"idle", "returned"}
    /\ \E text \in Texts, max_chars \in 1..MaxChars, overlap \in 0..MaxOverlap :
          chunker' = ChunkStart(text, max_chars, overlap)
    /\ UNCHANGED <<idea_nodes, chroma_ideas, edges, last, pc, call, wfd, km, first,
                   voice_profiles>>

ChunkLoop ==
    /\ chunker.pc = "loop"
    /\ Len(chunker.chunks) < MaxChunks
    /\ chunker' = ChunkPass(chunker)
    /\ UNCHANGED <<idea_nodes, chroma_ideas, edges, last, pc, call, wfd, km, first,
                   voice_profiles>>

InitChunk == InitStores /\ chroma_ideas = FullIndex

NextChunk == ChunkByChars \/ ChunkLoop

SpecChunk == InitChunk /\ [][NextChunk]_vars

(***************************************************************************)
(* SQLiteManager: the voice_profiles table (sqlite_manager.py 125-135,     *)
(* 449-505).  The position of a row stands for its fresh uuid4 profile_id; *)
(* user_id is NOT NULL.                                                    *)
(***************************************************************************)
\* the most rows of voice_profiles
MaxProfiles == 4

UserIds == {"u1", "u2"}

\* create_voice_profile whose UPDATE of the other profiles is left out
create_voice_profile_KeepsOthersActive(V, user_id) ==
    Append(V, [profile_id |-> Len(V) + 1, user_id |-> user_id, is_active |-> 1])

\* create_voice_profile(user_id, ...): INSERT the row with is_active = 1,
\* then UPDATE ... SET is_active = 0 WHERE user_id = ? AND profile_id != ?,
\* in one transaction
create_voice_profile(V, user_id) ==
    LET profile_id == Len(V) + 1
        inserted == Append(V, [profile_id |-> profile_id, user_id |-> user_id,
                               is_active |-> 1])
    IN  [i \in DOMAIN inserted |->
            IF inserted[i].user_id = user_id /\ inserted[i].profile_id # profile_id
            THEN [inserted[i] EXCEPT !.is_active = 0]
            ELSE inserted[i]]

\* set_active_voice_profile(profile_id): nothing when no row has the id;
\* else UPDATE ... SET is_active = CASE WHEN profile_id = ? THEN 1 ELSE 0 END
\* WHERE user_id = ?
set_active_voice_profile(V, profile_id) ==
    IF ~\E i \in DOMAIN V : V[i].profile_id = profile_id THEN V
    ELSE LET user_id == V[CHOOSE i \in DOMAIN V : V[i].profile_id = profile_id].user_id
         IN  [i \in DOMAIN V |->
                 IF V[i].user_id = user_id
                 THEN [V[i] EXCEPT !.is_active = IF V[i].profile_id = profile_id
                                                 THEN 1 ELSE 0]
                 ELSE V[i]]

CreateVoiceProfile ==
    /\ Len(voice_profiles) < MaxProfiles
    /\ \E user_id \in UserIds :
         /\ voice_profiles' = create_voice_profile(voice_profiles, user_id)
         /\ last' = [op |-> "create_voice_profile", user_id |-> user_id,
                     profile_id |-> Len(voice_profiles) + 1, before |-> voice_profiles]
    /\ UNCHANGED <<idea_nodes, chroma_ideas, edges, pc, call, wfd, km, first, chunker>>

\* the ids of the rows and one id no row has
SetActiveVoiceProfile ==
    /\ \E profile_id \in 1..(Len(voice_profiles) + 1) :
         /\ voice_profiles' = set_active_voice_profile(voice_profiles, profile_id)
         /\ last' = [op |-> "set_active_voice_profile", profile_id |-> profile_id,
                     before |-> voice_profiles]
    /\ UNCHANGED <<idea_nodes, chroma_ideas, edges, pc, call, wfd, km, first, chunker>>

InitVoice == InitStores /\ chroma_ideas = FullIndex

NextVoice == CreateVoiceProfile \/ SetActiveVoiceProfile

SpecVoice == InitVoice /\ [][NextVoice]_vars

(***************************************************************************)
(* Properties.                                                             *)
(***************************************************************************)
Called == last.op = "autolink_for_node"

SameSimilar(e, f) ==
    /\ e.edge_type = "similar" /\ f.edge_type = "similar"
    /\ e.src_id = f.src_id /\ e.dst_id = f.dst_id

\* C1: after any sequence of autolink_for_node and autolink_recent calls that
\* run one after another on a store without duplicates, the edges table holds
\* at most one "similar" row for every ordered (source, destination) pair
C1_NoDuplicateSimilar ==
    \A i, j \in DOMAIN edges : i < j => ~SameSimilar(edges[i], edges[j])

\* a call that started on a non-empty table and whose candidate list named a
\* destination twice: linked at its first mention, found linked at its second
C1_Witness ==
    /\ Called /\ last.start >= 1
    /\ \E i, j \in DOMAIN last.log :
         /\ i < j /\ last.log[i].dst_id = last.log[j].dst_id
         /\ last.log[i].created
         /\ last.log[j].allowed /\ last.log[j].existed /\ ~last.log[j].created

RowCount(s, d) ==
    Cardinality({i \in DOMAIN edges :
        edges[i].edge_type = "similar" /\ edges[i].src_id = s /\ edges[i].dst_id = d})

ResultCount(p, s, d) ==
    IF pc[p] = "idle" \/ call[p].node_id # s THEN 0
    ELSE Cardinality({i \in DOMAIN call[p].results : call[p].results[i].dst_id = d})

\* C2: the edges table enforces no uniqueness on (src_id, dst_id, edge_type):
\* every concurrent call that passed the edge_exists check gets a row of its
\* own, so the rows of a pair are as many as the result records for it
C2_EveryPassGetsItsRow ==
    \A s \in NodeIds, d \in NodeIds :
        RowCount(s, d) = ResultCount(1, s, d) + ResultCount(2, s, d)

\* both calls are over and left two "similar" rows for the same pair
C2_Witness ==
    /\ \A p \in Procs : pc[p] = "done"
    /\ \E i, j \in DOMAIN edges : i < j /\ SameSimilar(edges[i], edges[j])
    /\ \E s \in NodeIds, d \in NodeIds : ResultCount(1, s, d) = 1 /\ ResultCount(2, s, d) = 1

\* C3: for a node_id with no index entry and no non-empty content (an unknown
\* node_id included), autolink_for_node returns the empty list, issues no
\* neighbor query and creates no edge
C3_NoEmbeddingReturnsEmpty ==
    (/\ Called
     /\ last.node_id \notin DOMAIN chroma_ideas
     /\ get_idea_node(idea_nodes, last.node_id).content = "")
    => /\ last.results = <<>>
       /\ last.queries = 0
       /\ last.log = <<>>
       /\ Len(edges) = last.start

C3_Witness ==
    /\ Called /\ last.node_id = UnknownId
    /\ last.results = <<>> /\ last.queries = 0

Within(k, bound) == k.distance # None /\ k.distance[1] <= bound

CosAtLeast(k, bound) == k.cos_val # None /\ k.cos_val[1] >= bound

\* the four acceptance criteria of the specification
Accepts(k, P) ==
    \/ Within(k, P.max_distance)
    \/ Within(k, P.close_override_distance)
    \/ (P.require_tag_overlap /\ k.tag_overlap >= P.min_tag_overlap
        /\ Within(k, FlAdd(P.max_distance, TagRelax)))
    \/ CosAtLeast(k, P.min_cosine)

HasRow(s, d) == \E i \in DOMAIN edges : i > last.start /\ edges[i].edge_type = "similar"
                                        /\ edges[i].src_id = s /\ edges[i].dst_id = d

C4_WitnessNothingKnown ==
    /\ Called /\ ~last.P.require_mutual
    /\ \E i \in DOMAIN last.log :
         LET k == last.log[i]
         IN  /\ k.distance = None /\ k.cos_val = None
             /\ k.dst_id # last.node_id /\ ~k.existed /\ ~k.created

\* C5: a candidate whose reported distance is <= close_override_distance
\* passes the acceptance screen under every policy, whatever its cosine and
\* tag overlap (and is linked unless the mutual gate or the duplicate check
\* stops it)
C5_CloseOverrideAccepts ==
    Called =>
        \A i \in DOMAIN last.log :
            LET k == last.log[i]
            IN  Within(k, last.P.close_override_distance)
                => /\ k.screen
                   /\ (~last.P.require_mutual /\ ~k.existed) => k.created

\* a candidate accepted by the override alone: farther than max_distance,
\* too few shared tags for the relaxed bound, cosine below min_cosine
C5_Witness ==
    /\ Called
    /\ \E i \in DOMAIN last.log :
         LET k == last.log[i]
         IN  /\ Within(k, last.P.close_override_distance)
             /\ ~Within(k, last.P.max_distance)
             /\ last.P.require_tag_overlap /\ k.tag_overlap < last.P.min_tag_overlap
             /\ k.cos_val # None /\ ~CosAtLeast(k, last.P.min_cosine)
             /\ k.created

C6_WitnessNoDistance ==
    /\ Called
    /\ \E i \in DOMAIN last.log :
         /\ last.log[i].distance = None /\ last.log[i].created
         /\ CosAtLeast(last.log[i], last.P.min_cosine)

C7_NoEmbeddingNoGate ==
    /\ Called /\ last.P.require_mutual
    /\ \E i \in DOMAIN last.log :
         LET k == last.log[i]
         IN  k.cos_val = None /\ ~k.requeried /\ k.created

\* C8, as the docstring states it: with require_tag_overlap a candidate is
\* linked only if it shares min_tag_overlap tags, and in every case only if
\* its distance is <= max_distance, unless its distance is <=
\* close_override_distance
C8_DocstringRule ==
    Called =>
        \A i \in DOMAIN last.log :
            LET k == last.log[i]
            IN  k.created =>
                  /\ last.P.require_tag_overlap
                       => \/ k.tag_overlap >= last.P.min_tag_overlap
                          \/ Within(k, last.P.close_override_distance)
                  /\ \/ Within(k, last.P.max_distance)
                     \/ Within(k, last.P.close_override_distance)

\* the log entries of the candidates the call linked, in order
Linked == SelectSeq(last.log, LAMBDA k : k.created)

\* 1 / (1 + distance) if a distance was reported, else the cosine, else 0
WeightOf(k) ==
    IF k.distance # None THEN FlDiv(One, FlAdd(One, k.distance[1]))
    ELSE IF k.cos_val # None THEN k.cos_val[1] ELSE 0

\* the example of the specification: A and B with cosine 0.9, reported
\* distance 0.1, max_distance 0.85, close_override_distance 0.35, min_cosine
\* 0.55, no edge before
Example ==
    /\ Called /\ last.node_id = "A" /\ last.start = 0
    /\ last.P.max_distance = 850 /\ last.P.close_override_distance = 350
    /\ last.P.min_cosine = 550
    /\ Len(last.log) = 1
    /\ last.log[1].dst_id = "B" /\ last.log[1].distance = Some(100)
    /\ last.log[1].cos_val = Some(900)
    /\ last.log[1].requeried => "A" \in Range(last.log[1].ids2)

\* C9: every edge autolink_for_node creates carries, in its row and in its
\* result record, the weight 1 / (1 + distance), else the cosine, else 0; in
\* the example exactly one edge, A -> B, is created, with weight 1 / 1.1
C9_Weight ==
    Called =>
        /\ Len(last.results) = Len(Linked)
        /\ Len(edges) = last.start + Len(last.results)
        /\ \A j \in DOMAIN last.results :
             LET r   == last.results[j]
                 row == edges[r.edge_id]
             IN  /\ r.edge_id = last.start + j
                 /\ r.dst_id = Linked[j].dst_id
                 /\ r.weight = WeightOf(Linked[j])
                 /\ row.weight = r.weight
                 /\ row.src_id = last.node_id /\ row.dst_id = r.dst_id
                 /\ row.edge_type = "similar"
        /\ Example =>
             /\ Len(edges) = 1
             /\ edges[1].src_id = "A" /\ edges[1].dst_id = "B"
             /\ edges[1].weight = FlDiv(One, FlAdd(One, 100))

C9_Witness == Example /\ Len(edges) = 1 /\ ~last.P.require_mutual

\* a call that linked one candidate with a reported distance and, under
\* another answer of the index, one without
C9_WitnessCosineWeight ==
    /\ Called
    /\ \E j \in DOMAIN last.results :
         /\ last.results[j].distance = None /\ Linked[j].cos_val # None
         /\ last.results[j].weight = Linked[j].cos_val[1]

\* C10, as stated: weight_from_distance(None) = 0.0, weight_from_distance(0.0)
\* = 1.0, and for all distances 0 <= d1 < d2 the weight of d1 is greater than
\* the weight of d2
C10_StrictlyDecreasing ==
    /\ \A i \in DOMAIN wfd :
         /\ wfd[i].d = None => wfd[i].w = 0
         /\ wfd[i].d = Some(0) => wfd[i].w = One
    /\ \A i, j \in DOMAIN wfd :
         (wfd[i].d # None /\ wfd[j].d # None /\ wfd[i].d[1] < wfd[j].d[1])
         => wfd[i].w > wfd[j].w

\* C10, amended: weight_from_distance(None) = 0.0, weight_from_distance(0.0) =
\* 1.0, and for all distances 0 <= d1 < d2 the weight of d1 is at least the
\* weight of d2
C10_NonIncreasing ==
    /\ \A i \in DOMAIN wfd :
         /\ wfd[i].d = None => wfd[i].w = 0
         /\ wfd[i].d = Some(0) => wfd[i].w = One
    /\ \A i, j \in DOMAIN wfd :
         (wfd[i].d # None /\ wfd[j].d # None /\ wfd[i].d[1] < wfd[j].d[1])
         => wfd[i].w >= wfd[j].w

\* two calls with different distances, the larger one with the smaller weight
C10_Witness ==
    \E i, j \in DOMAIN wfd :
        /\ wfd[i].d # None /\ wfd[j].d # None
        /\ wfd[i].d[1] < wfd[j].d[1] /\ wfd[i].w > wfd[j].w

\* C12, as stated: whenever the index query fails or returns fewer usable
\* candidates than the requested top_k, autolink_for_node takes the fallback
\* path: a call that stayed on the index path had at least top_k candidates
C12_FallbackBelowTopK ==
    (Called /\ last.path = "index") => Len(last.log) >= last.P.top_k

\* C12, amended: autolink_for_node takes the fallback path exactly when the
\* index query fails or returns no ids or, with exclude_self set, returns at
\* most one id; an answer with more ids than that is used as it is, also
\* when they are fewer than top_k
C12_FallbackWhenNoNeighbor ==
    (Called /\ last.path # "none") =>
        /\ last.path = "fallback"
             <=> last.answered <= (IF last.P.exclude_self THEN 1 ELSE 0)
        /\ last.path = "index" => Len(last.log) <= last.answered
        /\ last.path = "fallback" => \A i \in DOMAIN last.log :
                                        last.log[i].dst_id \in DOMAIN idea_nodes

\* the index answered with one id, exclude_self was set, and the call linked
\* a candidate of the fallback ranking
C12_Witness ==
    /\ Called /\ last.path = "fallback"
    /\ last.answered = 1 /\ last.P.exclude_self
    /\ last.results # <<>>

\* the index answered with fewer ids than top_k and the call used them
C12_WitnessShortAnswer ==
    /\ Called /\ last.path = "index"
    /\ last.answered < last.P.top_k /\ last.results # <<>>

FellBack == Called /\ last.path = "fallback"

\* the pool of the source's fallback: the ideas list_idea_nodes gives for
\* the source's user and voice profile that have a derivable embedding (the
\* source itself left out under exclude_self), and their cosine to the source
Pool ==
    LET src == get_idea_node(idea_nodes, last.node_id)
    IN  {c \in Range(list_idea_nodes(idea_nodes, PoolLimit, src.user_id, src.voice_profile_id)) :
            /\ get_idea_embedding(chroma_ideas, idea_nodes, c) # None
            /\ last.P.exclude_self => c # last.node_id}

PoolCos(c) ==
    Dot(get_idea_embedding(chroma_ideas, idea_nodes, last.node_id),
        get_idea_embedding(chroma_ideas, idea_nodes, c))

\* at most top_k pool ideas, each once, the highest cosines first, never the
\* source under exclude_self
TopOfPool ==
    /\ Len(last.log) <= last.P.top_k
    /\ Len(last.log) = last.P.top_k \/ Len(last.log) = Cardinality(Pool)
    /\ \A i \in DOMAIN last.log :
         /\ last.log[i].dst_id \in Pool
         /\ last.log[i].cos_val = Some(PoolCos(last.log[i].dst_id))
         /\ last.P.exclude_self => last.log[i].dst_id # last.node_id
    /\ \A i, j \in DOMAIN last.log :
         i < j => /\ last.log[i].dst_id # last.log[j].dst_id
                  /\ last.log[i].cos_val[1] >= last.log[j].cos_val[1]
    /\ \A c \in Pool :
         (\A i \in DOMAIN last.log : last.log[i].dst_id # c)
         => \A i \in DOMAIN last.log : last.log[i].cos_val[1] >= PoolCos(c)

C13_WitnessCut ==
    FellBack /\ Len(last.log) = last.P.top_k /\ Cardinality(Pool) > last.P.top_k

SameScope(a, b) ==
    /\ get_idea_node(idea_nodes, a).user_id = get_idea_node(idea_nodes, b).user_id
    /\ get_idea_node(idea_nodes, a).voice_profile_id
         = get_idea_node(idea_nodes, b).voice_profile_id

KmeansDone == Finished(km) /\ km.vectors # <<>>

\* C17: kmeans never raises for a non-empty input: an empty cluster is
\* reseeded with vectors[i] for some i in 0..n-1
C17_NeverRaises == km.pc # "raised"

\* C15: a call on n >= 1 vectors returns n labels, each in
\* 0..min(max(k, 1), n) - 1, and min(max(k, 1), n) centroids
C15_ClampedShape ==
    KmeansDone =>
        LET n  == Len(km.vectors)
            kc == Min(Max(km.k_arg, 1), n)
        IN  /\ km.pc = "returned"
            /\ Len(km.labels) = n
            /\ \A i \in DOMAIN km.labels : km.labels[i] \in 0..(kc - 1)
            /\ Len(km.centroids) = kc

CentroidDistance(v, c) == FlAdd(One, -cosine_similarity(v, c))

\* label l names the lowest-index centroid at the least distance from v
LowestNearest(v, centroids, l) ==
    /\ l + 1 \in DOMAIN centroids
    /\ \A j \in DOMAIN centroids :
         /\ CentroidDistance(v, centroids[l + 1]) <= CentroidDistance(v, centroids[j])
         /\ j < l + 1 =>
              CentroidDistance(v, centroids[l + 1]) < CentroidDistance(v, centroids[j])

\* a call makes at most max_iter assignment passes, goes on only after a
\* pass that changed a label, and when it stops at a pass without a change
\* every label names the lowest-index nearest centroid returned
C18_PassesAndLabels ==
    (km.pc # "idle" /\ km.vectors # <<>>) =>
        /\ km.passes <= km.max_iter
        /\ km.pc = "recompute" => km.passes >= 1
        /\ (km.pc = "returned" /\ km.why = "no_change") =>
              \A i \in DOMAIN km.vectors :
                  LowestNearest(km.vectors[i], km.centroids, km.labels[i])
        /\ (km.pc = "returned" /\ km.why = "max_iter") => km.passes = km.max_iter

\* a call that is inside the loop of lines 58-62
Running(st) == st.pc \in {"assign", "recompute"}

\* the steps a running call can still take: two for every pass that is
\* left, one more between a pass and its recompute
StepsLeft(st) ==
    2 * (st.max_iter - st.passes) + (IF st.pc = "recompute" THEN 1 ELSE 0)

\* C18: kmeans always ends, after at most max_iter assignment passes and at
\* the first pass that changes no label, and the labels it then returns
\* name, for each vector, the lowest-index centroid at the least
\* 1 - cosine: every step of a running call ends it or leaves it with
\* fewer steps to take, and a running call has a positive number left
C18_Terminates ==
    /\ [] C18_PassesAndLabels
    /\ [] (Running(km) => StepsLeft(km) > 0)
    /\ [][Running(km) =>
             \/ Finished(km')
             \/ Running(km') /\ StepsLeft(km') < StepsLeft(km)]_vars

\* a call that stopped before max_iter at a pass without a change, with two
\* returned centroids equally near to a vector
C18_Witness ==
    /\ km.pc = "returned" /\ km.why = "no_change"
    /\ km.passes >= 2 /\ km.passes < km.max_iter
    /\ \E i \in DOMAIN km.vectors : \E j, o \in DOMAIN km.centroids :
         /\ j # o
         /\ CentroidDistance(km.vectors[i], km.centroids[j])
              = CentroidDistance(km.vectors[i], km.centroids[o])
         /\ km.labels[i] = j - 1

\* a run of cluster_ideas that found no ids or no embeddings: the index
\* holds no entry, or get_ideas failed and answered with empty lists
ClusterFoundNothing ==
    /\ last.op = "cluster_ideas"
    /\ (DOMAIN chroma_ideas = {} \/ last.got = "down")

\* C19: when the index holds no ideas, cluster_ideas returns an empty cluster
\* list and creates no edge, whatever k is
C19_EmptyIndexNoClusters ==
    ClusterFoundNothing =>
        /\ ~last.raised
        /\ last.clusters = <<>>
        /\ Len(edges) = last.start

\* a run with k = 10 over an index without entries
C19_Witness ==
    /\ ClusterFoundNothing /\ DOMAIN chroma_ideas = {}
    /\ last.k = 10

\* a run whose get_ideas failed over an index with entries, after a run
\* that created edges
C19_WitnessFetchFailed ==
    /\ ClusterFoundNothing /\ DOMAIN chroma_ideas # {}
    /\ last.start > 0

\* the rows of the edges table the last call added
NewEdges == {i \in DOMAIN edges : i > last.start}

ClusterMemberEdges == {i \in DOMAIN edges : edges[i].edge_type = "cluster_member"}

RECURSIVE SumSizes(_)
SumSizes(clusters) ==
    IF clusters = <<>> THEN 0 ELSE Head(clusters).size + SumSizes(Tail(clusters))

\* the reported clusters that list idea n
ClustersOf(n) ==
    {c \in DOMAIN last.clusters :
        \E i \in DOMAIN last.clusters[c].ids : last.clusters[c].ids[i] = n}

\* C20: a run of cluster_ideas over n >= 1 indexed ideas reports clusters
\* that partition them, with sizes that sum to n, and adds exactly one
\* cluster_member edge per idea, from cluster:<k>:<cid> of the idea's
\* cluster and with that cluster's label; after r runs the table holds r * n
\* cluster_member edges
C20_PartitionAndAdditive ==
    (last.op = "cluster_ideas" /\ last.n > 0) =>
        /\ ~last.raised
        /\ SumSizes(last.clusters) = last.n
        /\ Cardinality(NewEdges) = last.n
        /\ \A n \in DOMAIN chroma_ideas :
             /\ Cardinality(ClustersOf(n)) = 1
             /\ Cardinality({i \in NewEdges : edges[i].dst_id = n}) = 1
             /\ \A i \in NewEdges : edges[i].dst_id = n =>
                  \E c \in ClustersOf(n) :
                      /\ edges[i].edge_type = "cluster_member"
                      /\ edges[i].src_id = ClusterNodeId(last.k, c - 1)
                      /\ edges[i].metadata.label = last.clusters[c].label
        /\ Cardinality(ClusterMemberEdges) = last.runs * last.n

\* C11: every row of the edges table, "similar" or "cluster_member", has a
\* weight between 0 and 1
C11_WeightInUnitInterval ==
    \A i \in DOMAIN edges : edges[i].weight >= 0 /\ edges[i].weight <= One

\* C21: every cluster that cluster_ideas reports has at least one member
\* and is the source of a cluster_member edge of that run to an indexed idea
C21_NoEmptyCluster ==
    last.op = "cluster_ideas" =>
        \A c \in DOMAIN last.clusters :
            /\ last.clusters[c].size >= 1
            /\ \E i \in NewEdges :
                 /\ edges[i].edge_type = "cluster_member"
                 /\ edges[i].src_id = last.clusters[c].cluster_id
                 /\ edges[i].dst_id \in DOMAIN chroma_ideas

\* the titles of the members of reported cluster c, in member order
TitlesOf(c) ==
    LET with == SelectSeq(last.clusters[c].ids, LAMBDA n : Titles(n) # "")
    IN  [i \in DOMAIN with |-> Titles(with[i])]

\* the lowercased tokens of the titles of cluster c, with repeats
TokensOf(c) == AllTokens(TitlesOf(c))

\* how often token w occurs in the titles of cluster c
Frequency(c, w) == Cardinality({i \in DOMAIN TokensOf(c) : TokensOf(c)[i] = w})

\* the tokens of cluster c that are at least 3 long and no stop words
Qualifying(c) ==
    {w \in {TokensOf(c)[i] : i \in DOMAIN TokensOf(c)} :
        w \notin StopWords /\ w \notin ShortTokens}

\* t lists the min(3, number of qualifying tokens) most frequent qualifying
\* tokens of cluster c, the more frequent first
MostFrequent(c, t) ==
    /\ Len(t) = Min(3, Cardinality(Qualifying(c)))
    /\ \A i, j \in DOMAIN t : i < j =>
         t[i] # t[j] /\ Frequency(c, t[i]) >= Frequency(c, t[j])
    /\ \A i \in DOMAIN t : \A w \in Qualifying(c) \ {t[j] : j \in DOMAIN t} :
         Frequency(c, t[i]) >= Frequency(c, w)

\* C22: the label of a reported cluster is its up to 3 most frequent
\* qualifying title tokens joined with " / "; without a qualifying token it
\* is the first title of the cluster, and without titles "cluster-<cid>"
C22_ClusterLabel ==
    last.op = "cluster_ideas" =>
        \A c \in DOMAIN last.clusters :
            LET label == last.clusters[c].label
            IN  IF Qualifying(c) # {}
                THEN \E t \in SeqsUpTo(Qualifying(c), 3) :
                        MostFrequent(c, t) /\ label = Join(" / ", t)
                ELSE IF TitlesOf(c) # <<>> THEN label = TitlesOf(c)[1]
                ELSE label = "cluster-" \o ToString(c - 1)

\* a cluster with the titles "Improve onboarding flow" and "Onboarding
\* checklist for new hires", labelled "onboarding / improve / flow"
C22_Witness ==
    /\ last.op = "cluster_ideas"
    /\ \E c \in DOMAIN last.clusters :
         /\ TitlesOf(c) = <<"Improve onboarding flow", "Onboarding checklist for new hires">>
         /\ last.clusters[c].label = "onboarding / improve / flow"

\* a run that reported a cluster labelled by its first title and a cluster
\* labelled "cluster-<cid>"
C22_WitnessFallbacks ==
    /\ last.op = "cluster_ideas"
    /\ \E c \in DOMAIN last.clusters : last.clusters[c].label = "AI"
    /\ \E c \in DOMAIN last.clusters :
         /\ last.clusters[c].size > 0
         /\ last.clusters[c].label = "cluster-" \o ToString(c - 1)

RecentCalled == last.op = "autolink_recent"

\* the ideas of the owner scope autolink_recent was called with
InRecentScope ==
    {n \in DOMAIN idea_nodes :
        /\ (last.user_id # "" => idea_nodes[n].user_id = last.user_id)
        /\ (last.voice_profile_id # "" =>
                idea_nodes[n].voice_profile_id = last.voice_profile_id)}

RECURSIVE CreatedBefore(_)
\* the edges the calls for the first i records created
CreatedBefore(i) ==
    IF i = 0 THEN 0 ELSE Len(last.out[i].created_edges) + CreatedBefore(i - 1)

\* the edges table as the call for record i found it
TableBefore(i) == SubSeq(edges, 1, last.start + CreatedBefore(i - 1))

\* C23: autolink_recent returns one record for each of the at most limit
\* most recently created ideas of the scope, the most recent first; the
\* created_edges of a record are what one autolink_for_node call on that
\* idea with the passed policy returns when run on the table the calls
\* before it left, and the table ends up holding what the calls created
C23_OneRecordPerRecentIdea ==
    RecentCalled =>
        /\ Len(last.out) = Min(last.limit, Cardinality(InRecentScope))
        /\ \A i \in DOMAIN last.out :
             /\ last.out[i].node_id \in InRecentScope
             /\ \A j \in DOMAIN last.out : i < j =>
                  idea_nodes[last.out[i].node_id].created_at
                      > idea_nodes[last.out[j].node_id].created_at
             /\ \A n \in InRecentScope \ {last.out[j].node_id : j \in DOMAIN last.out} :
                  idea_nodes[n].created_at < idea_nodes[last.out[i].node_id].created_at
             /\ last.out[i].created_edges =
                  autolink_for_node(TableBefore(i), idea_nodes, chroma_ideas,
                                    last.out[i].node_id,
                                    [last.P EXCEPT !.exclude_self = TRUE],
                                    last.envs[last.out[i].node_id]).results
        /\ Len(edges) = last.start + CreatedBefore(Len(last.out))

\* a call with limit 2 on a scope of more than 2 ideas, on a table that held
\* an edge already, in which the second call created an edge
C23_Witness ==
    /\ RecentCalled /\ last.limit = 2 /\ last.start > 0
    /\ Cardinality(InRecentScope) > 2
    /\ Len(last.out) = 2
    /\ last.out[2].created_edges # <<>>


\* the call the state records ended in an exception out of create_edge
InsertRaised ==
    \/ last.op \in {"autolink_for_node", "autolink_recent"} /\ last.raised
    \/ last.op = "cluster_ideas" /\ last.edge_raised

\* the candidates a list of call traces tried to create an edge for
RECURSIVE Attempts(_)
Attempts(log) ==
    IF log = <<>> THEN 0
    ELSE Attempts(Tail(log)) + (IF Head(log).allowed /\ ~Head(log).existed THEN 1 ELSE 0)

\* C24: a create_edge that raises ends the call there: the caller gets the
\* exception and no result, the table keeps exactly the edges created
\* before it, the refused edge is tried once, and nothing is tried after it
C24_InsertErrorPropagates ==
    /\ InsertRaised =>
          /\ last.db # None
          /\ Len(edges) = last.start + last.db[1]
    /\ (last.op = "autolink_for_node" /\ last.raised) =>
          /\ Attempts(last.log) = last.db[1] + 1
          /\ ~last.log[Len(last.log)].created
          /\ last.log[Len(last.log)].allowed /\ ~last.log[Len(last.log)].existed
    /\ (last.op = "autolink_recent" /\ last.raised) =>
          /\ Len(last.out) = Len(last.calls) - 1
          /\ LET failed == last.calls[Len(last.calls)].log
             IN  /\ failed # <<>>
                 /\ ~failed[Len(failed)].created
                 /\ failed[Len(failed)].allowed /\ ~failed[Len(failed)].existed
    /\ (last.op = "cluster_ideas" /\ last.edge_raised) =>
          /\ last.clusters = <<>>
          /\ ~last.raised
    /\ (last.op \in {"autolink_for_node", "autolink_recent", "cluster_ideas"}
            /\ ~InsertRaised /\ last.db # None) =>
          Len(edges) - last.start <= last.db[1]

\* a call that created an edge and then met the INSERT that raises, with
\* a candidate left that it would have linked
C24_Witness ==
    /\ last.op = "autolink_for_node" /\ last.raised
    /\ Len(edges) > last.start
    /\ last.answered > Len(last.log)

C24_WitnessRecent ==
    /\ last.op = "autolink_recent" /\ last.raised
    /\ Len(edges) > last.start
    /\ Len(last.out) >= 1

C24_WitnessCluster ==
    /\ last.op = "cluster_ideas" /\ last.edge_raised
    /\ Len(edges) > last.start

\* the edge rows E are the first rows of F, unchanged and in their order
IsPrefix(E, F) == Len(E) <= Len(F) /\ \A i \in DOMAIN E : F[i] = E[i]

C25_WitnessRecomputed ==
    /\ chroma_ideas = ColdIndex
    /\ last.op \in {"autolink_for_node", "autolink_recent"}
    /\ Len(edges) > last.start

\* C26: the chunks of a call that returned cover the text: the first
\* starts at 0, each later one starts at or before the end of the one
\* before it, the last ends at len(text), and each holds text[start:end]
C26_ChunksLeaveNoGap ==
    (chunker.pc = "returned" /\ chunker.chunks # <<>>) =>
        LET ch == chunker.chunks
        IN  /\ ch[1].start = 0
            /\ \A i \in 2..Len(ch) : ch[i].start <= ch[i - 1].end
            /\ ch[Len(ch)].end = Len(chunker.text)
            /\ \A i \in DOMAIN ch :
                  /\ ch[i].start < ch[i].end
                  /\ ch[i].text = [j \in 1..(ch[i].end - ch[i].start) |->
                                      chunker.text[ch[i].start + j]]

\* a call that returned three or more overlapping chunks
C26_Witness ==
    /\ chunker.pc = "returned" /\ Len(chunker.chunks) >= 3
    /\ chunker.overlap > 0

\* C30: each chunk after the first starts strictly later than the chunk
\* before it, whatever the text, max_chars >= 1 and overlap >= 0, so that
\* the loop comes to the end of the text
C30_EachChunkStartsLater ==
    (chunker.pc # "idle") =>
        \A i \in 2..Len(chunker.chunks) :
            chunker.chunks[i].start > chunker.chunks[i - 1].start

\* a call with overlap >= max_chars on a text longer than max_chars makes
\* the same chunk again and again
C30_Loops ==
    /\ chunker.pc = "loop" /\ Len(chunker.chunks) > chunker.n
    /\ chunker.overlap >= chunker.max_chars

\* the ids of the profiles of user u with is_active = 1 in the table V
ActiveOf(V, u) == {V[i].profile_id : i \in {j \in DOMAIN V : V[j].user_id = u
                                                            /\ V[j].is_active = 1}}

RowOf(V, profile_id) == {V[i] : i \in {j \in DOMAIN V : V[j].profile_id = profile_id}}

\* C27: every user has at most one profile with is_active = 1; right after
\* create_voice_profile the new profile is the only active one of its
\* user; right after set_active_voice_profile(p) for a profile p of the
\* table, p is the only active one of its user and the profiles of the
\* other users are as before
C27_OneActiveProfilePerUser ==
    /\ \A u \in UserIds : Cardinality(ActiveOf(voice_profiles, u)) <= 1
    /\ last.op = "create_voice_profile" =>
          /\ ActiveOf(voice_profiles, last.user_id) = {last.profile_id}
          /\ RowOf(last.before, last.profile_id) = {}
    /\ (last.op = "set_active_voice_profile" /\ RowOf(last.before, last.profile_id) # {}) =>
          \A r \in RowOf(last.before, last.profile_id) :
             /\ ActiveOf(voice_profiles, r.user_id) = {last.profile_id}
             /\ Len(voice_profiles) = Len(last.before)
             /\ \A i \in DOMAIN voice_profiles :
                   /\ voice_profiles[i].user_id = last.before[i].user_id
                   /\ voice_profiles[i].profile_id = last.before[i].profile_id
                   /\ voice_profiles[i].user_id # r.user_id =>
                         voice_profiles[i] = last.before[i]

\* a user with two profiles and another user with an active one, right
\* after a call that took the active flag from one profile to another
C27_Witness ==
    /\ last.op \in {"create_voice_profile", "set_active_voice_profile"}
    /\ \E i, j \in DOMAIN voice_profiles :
          /\ i # j
          /\ voice_profiles[i].user_id = voice_profiles[j].user_id
          /\ voice_profiles[i].is_active = 1
          /\ last.before[j].is_active = 1 /\ voice_profiles[j].is_active = 0
    /\ Cardinality({voice_profiles[i].user_id : i \in DOMAIN voice_profiles}) = 2

\* C28: a call of autolink_for_node creates at most top_k "similar" edges,
\* on the index path and on the fallback path, with the source among the
\* neighbors the index returned or not
C28_AtMostTopKEdges ==
    last.op = "autolink_for_node" =>
        /\ Len(edges) - last.start <= last.P.top_k
        /\ Len(last.results) <= last.P.top_k

\* the last call ran with exclude_self set
ExcludedSelf ==
    \/ last.op = "autolink_for_node" /\ last.P.exclude_self
    \/ last.op = "autolink_recent"

\* C29: a call with exclude_self set, which every call of autolink_recent
\* is, creates no "similar" edge from an idea to itself, on the index path
\* and on the fallback path
C29_NoSelfEdge ==
    ExcludedSelf =>
        \A i \in (last.start + 1)..Len(edges) :
            edges[i].edge_type = "similar" => edges[i].src_id # edges[i].dst_id

\* the index answered with the source among the neighbors, and the call
\* linked another of them
C29_Witness ==
    /\ last.op = "autolink_for_node" /\ last.P.exclude_self
    /\ last.path = "index" /\ last.answered > Len(last.log)
    /\ Len(edges) > last.start

C29_WitnessFallback ==
    /\ last.op = "autolink_for_node" /\ last.P.exclude_self
    /\ last.path = "fallback" /\ Len(edges) > last.start

C29_WitnessRecent ==
    /\ last.op = "autolink_recent" /\ Len(edges) > last.start
====
